---- MODULE Spec2Model ----
(***************************************************************************)
(* A model of the swisstools tournament engine: player registration,      *)
(* round pairing (random in round 1, Swiss afterwards), result entry,     *)
(* the atomic standings update and round advancement.                     *)
(*                                                                         *)
(* A tournament value t is the record                                      *)
(*   [lastId, players, currentRound, rounds, config, started, finished]    *)
(* mirroring the Tournament struct.  players is a Go map (a function on   *)
(* the ids in use), rounds is a Go slice indexed from 0 (a function on    *)
(* 0..len-1) of sequences of pairings.  Every operation is a pure         *)
(* operator from the tournament value and the call's arguments to the     *)
(* record [t, err] of the tournament afterwards and the returned error;   *)
(* operations that draw random numbers or walk a map return the set of    *)
(* such records.  The actions apply the operators to the state.           *)
(*                                                                         *)
(* Five specifications share the operators: Spec calls the operations of   *)
(* the pairing engine on a new tournament, SpecLoaded calls them on a      *)
(* tournament rebuilt from a snapshot, SpecAnyResult gives AddResult also  *)
(* results with unset fields, SpecRemoval adds the registry with unique    *)
(* names, removal and reloading, and SpecLifecycle adds StartTournament,   *)
(* late entries and the game totals the standings are computed from.       *)
(***************************************************************************)
EXTENDS Integers, Sequences, FiniteSets, TLC

VARIABLES lastId, players, currentRound, rounds, config, started, finished, err, op

vars == <<lastId, players, currentRound, rounds, config, started, finished, err, op>>

----------------------------------------------------------------------------
(* Program constants                                                       *)

BYE_OPPONENT_ID == -1
UNINITIALIZED_RESULT == -1
BYE_WINS == 2
BYE_LOSSES == 0
BYE_DRAWS == 0
POINTS_FOR_WIN == 3
POINTS_FOR_DRAW == 1
POINTS_FOR_LOSS == 0

(* The error values the operations return; Nil is Go's nil error.          *)
Nil == "nil"
ErrEmptyName == "empty name"
ErrAddResultNotInitialized == "round not initialized - call NextRound() first"
ErrNotInitialized == "round not initialized - call Pair() first"
ErrNoPairings == "round has no pairings - call Pair() first"
ErrPlayerNotFound == "player not found"
ErrIncomplete == "incomplete match found - all matches must have results"
ErrNoPlayers == "cannot pair tournament with no players"
ErrInvalidState == "invalid tournament state: current round must be >= 1"
ErrAlreadyPaired == "round already has pairings - use Pair(true) to allow re-pairing"
ErrRandomNoPlayers == "cannot create random pairings with no players"

----------------------------------------------------------------------------
(* Bounds of the model and the inputs the calls are drawn from             *)

MaxPlayers == 3
MaxRounds == 2
MaxMatches == 2
MaxNotes == 1

Names == {"", "Alice"}

(* (wins, losses, draws) triples passed to AddResult: a decisive result    *)
(* and equal games won with one drawn game.                                *)
ResultArgs == { <<2, 1, 0>>, <<1, 1, 1>> }

(* Ids passed to AddResult: every id that can be assigned, the id 0 that   *)
(* never is, and the bye sentinel.                                         *)
ResultIds == {BYE_OPPONENT_ID} \cup (0 .. MaxPlayers)

----------------------------------------------------------------------------
(* Go values                                                               *)

Min(S) == CHOOSE x \in S : \A y \in S : x <= y

Max(a, b) == IF a >= b THEN a ELSE b

(* The zero value of Player, which reading a map at a missing key gives.   *)
(* The game totals, removed and removedInRound are the fields the snapshot *)
(* code reads from and writes to a Player (src/export.go:74-79, 146-151).  *)
ZeroPlayer ==
  [name |-> "", points |-> 0, wins |-> 0, losses |-> 0, draws |-> 0,
   gameWins |-> 0, gameLosses |-> 0, gameDraws |-> 0, notes |-> <<>>,
   removed |-> FALSE, removedInRound |-> 0]

MapGet(m, k) == IF k \in DOMAIN m THEN m[k] ELSE ZeroPlayer

MapSet(m, k, v) == [x \in (DOMAIN m) \cup {k} |-> IF x = k THEN v ELSE m[x]]

EmptyMap == [x \in {} |-> ZeroPlayer]

(* len(s) of a slice held as a function on 0..len-1                        *)
SliceLen(s) == Cardinality(DOMAIN s)

(* The orders in which a range over a map with key set S can visit it.     *)
Perms(S) == { f \in [1 .. Cardinality(S) -> S] : \A i, j \in 1 .. Cardinality(S) : f[i] = f[j] => i = j }

Pairing(a, b, aw, bw, d) == [playera |-> a, playerb |-> b, playeraWins |-> aw, playerbWins |-> bw, draws |-> d]

Result(t, e) == [t |-> t, err |-> e]

----------------------------------------------------------------------------
(* The operations                                                          *)

(* The TournamentConfig of DefaultConfig(): the scoring constants          *)
DefaultConfig ==
  [PointsForWin |-> POINTS_FOR_WIN, PointsForDraw |-> POINTS_FOR_DRAW, PointsForLoss |-> POINTS_FOR_LOSS,
   ByeWins |-> BYE_WINS, ByeLosses |-> BYE_LOSSES, ByeDraws |-> BYE_DRAWS]

(* config, started and finished are the fields of Tournament the snapshot  *)
(* code copies (src/export.go:103-107, 131-136).                           *)
NewTournamentWithConfig(cfg) ==
  [lastId |-> 0, players |-> EmptyMap, currentRound |-> 1, rounds |-> [i \in 0 .. 1 |-> <<>>],
   config |-> cfg, started |-> FALSE, finished |-> FALSE]

NewTournament == NewTournamentWithConfig(DefaultConfig)

(* AddPlayer that numbers the new player after the players still active    *)
AddPlayerIdFromCount(t, name) ==
  IF name = ""
  THEN Result(t, ErrEmptyName)
  ELSE LET id == Cardinality({ k \in DOMAIN t.players : ~t.players[k].removed }) + 1
           player == [ZeroPlayer EXCEPT !.name = name, !.notes = <<>>]
       IN Result([t EXCEPT !.lastId = id, !.players = MapSet(t.players, id, player)], Nil)

(* AddPlayer that takes the next id before it looks at the name            *)
AddPlayerCountsBeforeCheck(t, name) ==
  LET id == t.lastId + 1
      player == [ZeroPlayer EXCEPT !.name = name, !.notes = <<>>]
  IN IF name = ""
     THEN Result([t EXCEPT !.lastId = id], ErrEmptyName)
     ELSE Result([t EXCEPT !.lastId = id, !.players = MapSet(t.players, id, player)], Nil)

AddPlayer(t, name) ==
  IF name = ""
  THEN Result(t, ErrEmptyName)
  ELSE LET id == t.lastId + 1
           player == [ZeroPlayer EXCEPT !.name = name, !.notes = <<>>]
       IN Result([t EXCEPT !.lastId = id, !.players = MapSet(t.players, id, player)], Nil)

(* IsIncomplete that takes a pairing for complete once one field is set    *)
IsIncompleteWhenAllUnset(pairing) ==
  /\ pairing.playeraWins = UNINITIALIZED_RESULT
  /\ pairing.playerbWins = UNINITIALIZED_RESULT
  /\ pairing.draws = UNINITIALIZED_RESULT

(* The FIRST PASS of UpdatePlayerStandings: a pairing with an unset field  *)
IsIncomplete(pairing) ==
  \/ pairing.playeraWins = UNINITIALIZED_RESULT
  \/ pairing.playerbWins = UNINITIALIZED_RESULT
  \/ pairing.draws = UNINITIALIZED_RESULT

(* ApplyPairing that gives player A the match on equal games               *)
ApplyPairingTieToA(ps, pairing) ==
  IF pairing.playerb = BYE_OPPONENT_ID
  THEN LET playerA == MapGet(ps, pairing.playera)
       IN MapSet(ps, pairing.playera,
                 [playerA EXCEPT !.wins = @ + 1, !.points = @ + POINTS_FOR_WIN])
  ELSE LET playerA == MapGet(ps, pairing.playera)
           playerB == MapGet(ps, pairing.playerb)
           newA == IF pairing.playeraWins >= pairing.playerbWins
                   THEN [playerA EXCEPT !.wins = @ + 1, !.points = @ + POINTS_FOR_WIN]
                   ELSE [playerA EXCEPT !.losses = @ + 1, !.points = @ + POINTS_FOR_LOSS]
           newB == IF pairing.playeraWins >= pairing.playerbWins
                   THEN [playerB EXCEPT !.losses = @ + 1, !.points = @ + POINTS_FOR_LOSS]
                   ELSE [playerB EXCEPT !.wins = @ + 1, !.points = @ + POINTS_FOR_WIN]
       IN MapSet(MapSet(ps, pairing.playera, newA), pairing.playerb, newB)

(* ApplyPairing that never writes player B of a match back to the map      *)
ApplyPairingDropsPlayerB(ps, pairing) ==
  IF pairing.playerb = BYE_OPPONENT_ID
  THEN LET playerA == MapGet(ps, pairing.playera)
       IN MapSet(ps, pairing.playera,
                 [playerA EXCEPT !.wins = @ + 1, !.points = @ + POINTS_FOR_WIN])
  ELSE LET playerA == MapGet(ps, pairing.playera)
           newA == IF pairing.playeraWins > pairing.playerbWins
                   THEN [playerA EXCEPT !.wins = @ + 1, !.points = @ + POINTS_FOR_WIN]
                   ELSE IF pairing.playerbWins > pairing.playeraWins
                   THEN [playerA EXCEPT !.losses = @ + 1, !.points = @ + POINTS_FOR_LOSS]
                   ELSE [playerA EXCEPT !.draws = @ + 1, !.points = @ + POINTS_FOR_DRAW]
       IN MapSet(ps, pairing.playera, newA)

(* ApplyPairing that counts a bye as a win but gives no points for it      *)
ApplyPairingByeWithoutPoints(ps, pairing) ==
  IF pairing.playerb = BYE_OPPONENT_ID
  THEN LET playerA == MapGet(ps, pairing.playera)
       IN MapSet(ps, pairing.playera,
                 [playerA EXCEPT !.wins = @ + 1])
  ELSE LET playerA == MapGet(ps, pairing.playera)
           playerB == MapGet(ps, pairing.playerb)
           newA == IF pairing.playeraWins > pairing.playerbWins
                   THEN [playerA EXCEPT !.wins = @ + 1, !.points = @ + POINTS_FOR_WIN]
                   ELSE IF pairing.playerbWins > pairing.playeraWins
                   THEN [playerA EXCEPT !.losses = @ + 1, !.points = @ + POINTS_FOR_LOSS]
                   ELSE [playerA EXCEPT !.draws = @ + 1, !.points = @ + POINTS_FOR_DRAW]
           newB == IF pairing.playeraWins > pairing.playerbWins
                   THEN [playerB EXCEPT !.losses = @ + 1, !.points = @ + POINTS_FOR_LOSS]
                   ELSE IF pairing.playerbWins > pairing.playeraWins
                   THEN [playerB EXCEPT !.wins = @ + 1, !.points = @ + POINTS_FOR_WIN]
                   ELSE [playerB EXCEPT !.draws = @ + 1, !.points = @ + POINTS_FOR_DRAW]
       IN MapSet(MapSet(ps, pairing.playera, newA), pairing.playerb, newB)

(* One iteration of the SECOND PASS: the players map after one pairing     *)
ApplyPairing(ps, pairing) ==
  IF pairing.playerb = BYE_OPPONENT_ID
  THEN LET playerA == MapGet(ps, pairing.playera)
       IN MapSet(ps, pairing.playera,
                 [playerA EXCEPT !.wins = @ + 1, !.points = @ + POINTS_FOR_WIN])
  ELSE LET playerA == MapGet(ps, pairing.playera)
           playerB == MapGet(ps, pairing.playerb)
           newA == IF pairing.playeraWins > pairing.playerbWins
                   THEN [playerA EXCEPT !.wins = @ + 1, !.points = @ + POINTS_FOR_WIN]
                   ELSE IF pairing.playerbWins > pairing.playeraWins
                   THEN [playerA EXCEPT !.losses = @ + 1, !.points = @ + POINTS_FOR_LOSS]
                   ELSE [playerA EXCEPT !.draws = @ + 1, !.points = @ + POINTS_FOR_DRAW]
           newB == IF pairing.playeraWins > pairing.playerbWins
                   THEN [playerB EXCEPT !.losses = @ + 1, !.points = @ + POINTS_FOR_LOSS]
                   ELSE IF pairing.playerbWins > pairing.playeraWins
                   THEN [playerB EXCEPT !.wins = @ + 1, !.points = @ + POINTS_FOR_WIN]
                   ELSE [playerB EXCEPT !.draws = @ + 1, !.points = @ + POINTS_FOR_DRAW]
       IN MapSet(MapSet(ps, pairing.playera, newA), pairing.playerb, newB)

(* The SECOND PASS over round[i..]                                         *)
RECURSIVE SecondPass(_, _, _)
SecondPass(ps, round, i) ==
  IF i > Len(round) THEN ps
  ELSE SecondPass(ApplyPairing(ps, round[i]), round, i + 1)

(* UpdatePlayerStandings without its first pass                            *)
UpdatePlayerStandingsNoFirstPass(t) ==
  IF t.currentRound >= SliceLen(t.rounds)
  THEN Result(t, ErrNotInitialized)
  ELSE IF Len(t.rounds[t.currentRound]) = 0
  THEN Result(t, ErrNoPairings)
  ELSE Result([t EXCEPT !.players = SecondPass(t.players, t.rounds[t.currentRound], 1)], Nil)

UpdatePlayerStandings(t) ==
  IF t.currentRound >= SliceLen(t.rounds)
  THEN Result(t, ErrNotInitialized)
  ELSE IF Len(t.rounds[t.currentRound]) = 0
  THEN Result(t, ErrNoPairings)
  ELSE IF \E i \in 1 .. Len(t.rounds[t.currentRound]) : IsIncomplete(t.rounds[t.currentRound][i])
  THEN Result(t, ErrIncomplete)
  ELSE Result([t EXCEPT !.players = SecondPass(t.players, t.rounds[t.currentRound], 1)], Nil)

(* NextRound that advances whatever UpdatePlayerStandings returns          *)
NextRoundIgnoringError(t) ==
  LET r == UpdatePlayerStandings(t)
      cr == r.t.currentRound + 1
      last == Max(SliceLen(r.t.rounds) - 1, cr)
  IN Result([r.t EXCEPT !.currentRound = cr,
                        !.rounds = [i \in 0 .. last |-> IF i \in DOMAIN r.t.rounds THEN r.t.rounds[i] ELSE <<>>]],
            r.err)

(* NextRound that advances the round number without a new round to hold it *)
NextRoundWithoutNewRound(t) ==
  LET r == UpdatePlayerStandings(t)
  IN IF r.err # Nil
     THEN r
     ELSE Result([r.t EXCEPT !.currentRound = r.t.currentRound + 1], Nil)

(* NextRound that starts the new round with the pairings of the last one   *)
NextRoundKeepsPairings(t) ==
  LET r == UpdatePlayerStandings(t)
  IN IF r.err # Nil
     THEN r
     ELSE LET cr == r.t.currentRound + 1
              last == Max(SliceLen(r.t.rounds) - 1, cr)
          IN Result([r.t EXCEPT !.currentRound = cr,
                                !.rounds = [i \in 0 .. last |-> IF i = cr THEN r.t.rounds[r.t.currentRound]
                                                                 ELSE IF i \in DOMAIN r.t.rounds THEN r.t.rounds[i]
                                                                 ELSE <<>>]],
                    Nil)

NextRound(t) ==
  LET r == UpdatePlayerStandings(t)
  IN IF r.err # Nil
     THEN r
     ELSE LET cr == r.t.currentRound + 1
              last == Max(SliceLen(r.t.rounds) - 1, cr)
          IN Result([r.t EXCEPT !.currentRound = cr,
                                !.rounds = [i \in 0 .. last |-> IF i \in DOMAIN r.t.rounds THEN r.t.rounds[i] ELSE <<>>]],
                    Nil)

(* AddResult that looks for the player in the round before the current    *)
(* one                                                                     *)
AddResultInRoundBefore(t, id, wins, losses, draws) ==
  IF t.currentRound >= SliceLen(t.rounds)
  THEN Result(t, ErrAddResultNotInitialized)
  ELSE LET at == t.currentRound - 1
           round == t.rounds[at]
           hits == { i \in 1 .. Len(round) : round[i].playera = id \/ round[i].playerb = id }
       IN IF Len(round) = 0
          THEN Result(t, ErrNoPairings)
          ELSE IF hits = {}
          THEN Result(t, ErrPlayerNotFound)
          ELSE LET i == Min(hits)
               IN IF round[i].playera = id
                  THEN Result([t EXCEPT !.rounds[at][i].playeraWins = wins,
                                        !.rounds[at][i].playerbWins = losses,
                                        !.rounds[at][i].draws = draws], Nil)
                  ELSE Result([t EXCEPT !.rounds[at][i].playerbWins = wins,
                                        !.rounds[at][i].playeraWins = losses,
                                        !.rounds[at][i].draws = draws], Nil)

(* AddResult that leaves a pairing alone once it holds a result            *)
AddResultKeepsEarlierResult(t, id, wins, losses, draws) ==
  IF t.currentRound >= SliceLen(t.rounds)
  THEN Result(t, ErrAddResultNotInitialized)
  ELSE IF Len(t.rounds[t.currentRound]) = 0
  THEN Result(t, ErrNoPairings)
  ELSE LET round == t.rounds[t.currentRound]
           hits == { i \in 1 .. Len(round) : round[i].playera = id \/ round[i].playerb = id }
       IN IF hits = {}
          THEN Result(t, ErrPlayerNotFound)
          ELSE LET i == Min(hits)
               IN IF round[i].playeraWins # UNINITIALIZED_RESULT
                  THEN Result(t, Nil)
                  ELSE IF round[i].playera = id
                  THEN Result([t EXCEPT !.rounds[t.currentRound][i].playeraWins = wins,
                                        !.rounds[t.currentRound][i].playerbWins = losses,
                                        !.rounds[t.currentRound][i].draws = draws], Nil)
                  ELSE Result([t EXCEPT !.rounds[t.currentRound][i].playerbWins = wins,
                                        !.rounds[t.currentRound][i].playeraWins = losses,
                                        !.rounds[t.currentRound][i].draws = draws], Nil)

(* AddResult that stores the reporter's wins as player A's whoever reports *)
AddResultNoSwap(t, id, wins, losses, draws) ==
  IF t.currentRound >= SliceLen(t.rounds)
  THEN Result(t, ErrAddResultNotInitialized)
  ELSE IF Len(t.rounds[t.currentRound]) = 0
  THEN Result(t, ErrNoPairings)
  ELSE LET round == t.rounds[t.currentRound]
           hits == { i \in 1 .. Len(round) : round[i].playera = id \/ round[i].playerb = id }
       IN IF hits = {}
          THEN Result(t, ErrPlayerNotFound)
          ELSE LET i == Min(hits)
               IN Result([t EXCEPT !.rounds[t.currentRound][i].playeraWins = wins,
                                   !.rounds[t.currentRound][i].playerbWins = losses,
                                   !.rounds[t.currentRound][i].draws = draws], Nil)

AddResult(t, id, wins, losses, draws) ==
  IF t.currentRound >= SliceLen(t.rounds)
  THEN Result(t, ErrAddResultNotInitialized)
  ELSE IF Len(t.rounds[t.currentRound]) = 0
  THEN Result(t, ErrNoPairings)
  ELSE LET round == t.rounds[t.currentRound]
           hits == { i \in 1 .. Len(round) : round[i].playera = id \/ round[i].playerb = id }
       IN IF hits = {}
          THEN Result(t, ErrPlayerNotFound)
          ELSE LET i == Min(hits)
               IN IF round[i].playera = id
                  THEN Result([t EXCEPT !.rounds[t.currentRound][i].playeraWins = wins,
                                        !.rounds[t.currentRound][i].playerbWins = losses,
                                        !.rounds[t.currentRound][i].draws = draws], Nil)
                  ELSE Result([t EXCEPT !.rounds[t.currentRound][i].playerbWins = wins,
                                        !.rounds[t.currentRound][i].playeraWins = losses,
                                        !.rounds[t.currentRound][i].draws = draws], Nil)

GetRound(t) ==
  IF t.currentRound >= SliceLen(t.rounds) THEN <<>> ELSE t.rounds[t.currentRound]

(* removeRandomPlayer shrinking the slice without moving the last element  *)
(* into the selected place                                                 *)
removeRandomPlayerNoSwap(ps, index) ==
  [selected |-> ps[index], rest |-> SubSeq(ps, 1, Len(ps) - 1)]

(* removeRandomPlayer with rand.Intn giving index - 1: the selected player *)
(* and the slice with the last element moved into its place.               *)
removeRandomPlayer(ps, index) ==
  [selected |-> ps[index],
   rest |-> SubSeq([ps EXCEPT ![index] = ps[Len(ps)]], 1, Len(ps) - 1)]

(* The players a pairing computation collects: removed players stay in    *)
(* the map and are left out of every later pairing.                        *)
ActiveIds(t) == { id \in DOMAIN t.players : ~t.players[id].removed }

(* A bye created like a match, with its results unset                      *)
ByePairingUnset(a) ==
  Pairing(a, BYE_OPPONENT_ID, UNINITIALIZED_RESULT, UNINITIALIZED_RESULT, UNINITIALIZED_RESULT)

ByePairing(a) == Pairing(a, BYE_OPPONENT_ID, BYE_WINS, BYE_LOSSES, BYE_DRAWS)

MatchPairing(a, b) == Pairing(a, b, UNINITIALIZED_RESULT, UNINITIALIZED_RESULT, UNINITIALIZED_RESULT)

(* The loop of randomPair from the slice ps on: every pairing list the     *)
(* random indices can produce.                                             *)
RECURSIVE randomPairLoop(_, _)
randomPairLoop(ps, pairings) ==
  IF Len(ps) = 0 THEN {pairings}
  ELSE IF Len(ps) = 1 THEN {Append(pairings, ByePairing(ps[1]))}
  ELSE UNION { LET r0 == removeRandomPlayer(ps, i)
               IN UNION { LET r1 == removeRandomPlayer(r0.rest, j)
                          IN randomPairLoop(r1.rest, Append(pairings, MatchPairing(r0.selected, r1.selected)))
                          : j \in 1 .. Len(r0.rest) }
               : i \in 1 .. Len(ps) }

randomPair(t) ==
  IF Cardinality(ActiveIds(t)) = 0
  THEN {Result(t, ErrRandomNoPlayers)}
  ELSE { Result([t EXCEPT !.rounds[t.currentRound] = pairings], Nil)
         : pairings \in UNION { randomPairLoop(ps, <<>>) : ps \in Perms(ActiveIds(t)) } }

(* getSortedPlayers: the ids in map order, sorted by points descending by  *)
(* an unstable sort and then shuffled inside each group of equal points:   *)
(* every order of the ids in which points never increase.                  *)
getSortedPlayers(t) ==
  { ps \in Perms(ActiveIds(t)) :
      \A i, j \in 1 .. Len(ps) : i < j => t.players[ps[i]].points >= t.players[ps[j]].points }

havePlayedBefore(t, playerA, playerB) ==
  \E round \in 1 .. (t.currentRound - 1) :
    /\ round < SliceLen(t.rounds)
    /\ \E k \in 1 .. Len(t.rounds[round]) :
         LET pairing == t.rounds[round][k]
         IN \/ (pairing.playera = playerA /\ pairing.playerb = playerB)
            \/ (pairing.playera = playerB /\ pairing.playerb = playerA)

(* findBestOpponent without the pass over the players not met before       *)
findBestOpponentRematchSecond(t, playerID, sortedPlayers, paired) ==
  LET free == { k \in 1 .. Len(sortedPlayers) :
                  sortedPlayers[k] # playerID /\ sortedPlayers[k] \notin paired }
      samePoints == { k \in free : /\ MapGet(t.players, sortedPlayers[k]).points = MapGet(t.players, playerID).points
                                   /\ ~havePlayedBefore(t, playerID, sortedPlayers[k]) }
  IN IF samePoints # {} THEN sortedPlayers[Min(samePoints)]
     ELSE IF free # {} THEN sortedPlayers[Min(free)]
     ELSE -1

(* findBestOpponent that takes the last player of the list it has not met  *)
findBestOpponentFromTheEnd(t, playerID, sortedPlayers, paired) ==
  LET free == { k \in 1 .. Len(sortedPlayers) :
                  sortedPlayers[k] # playerID /\ sortedPlayers[k] \notin paired }
      notPlayed == { k \in free : ~havePlayedBefore(t, playerID, sortedPlayers[k]) }
      last(S) == CHOOSE k \in S : \A j \in S : j <= k
  IN IF notPlayed # {} THEN sortedPlayers[last(notPlayed)]
     ELSE IF free # {} THEN sortedPlayers[Min(free)]
     ELSE -1

findBestOpponent(t, playerID, sortedPlayers, paired) ==
  LET free == { k \in 1 .. Len(sortedPlayers) :
                  sortedPlayers[k] # playerID /\ sortedPlayers[k] \notin paired }
      samePoints == { k \in free : /\ MapGet(t.players, sortedPlayers[k]).points = MapGet(t.players, playerID).points
                                   /\ ~havePlayedBefore(t, playerID, sortedPlayers[k]) }
      notPlayed == { k \in free : ~havePlayedBefore(t, playerID, sortedPlayers[k]) }
  IN IF samePoints # {} THEN sortedPlayers[Min(samePoints)]
     ELSE IF notPlayed # {} THEN sortedPlayers[Min(notPlayed)]
     ELSE IF free # {} THEN sortedPlayers[Min(free)]
     ELSE -1

(* The Swiss loop of Pair from index i on                                  *)
RECURSIVE SwissLoop(_, _, _, _, _)
SwissLoop(t, ps, i, paired, pairings) ==
  IF i > Len(ps) THEN pairings
  ELSE IF ps[i] \in paired THEN SwissLoop(t, ps, i + 1, paired, pairings)
  ELSE LET opponent == findBestOpponent(t, ps[i], ps, paired)
       IN IF opponent # -1
          THEN SwissLoop(t, ps, i + 1, paired \cup {ps[i], opponent},
                         Append(pairings, MatchPairing(ps[i], opponent)))
          ELSE SwissLoop(t, ps, i + 1, paired \cup {ps[i]},
                         Append(pairings, ByePairing(ps[i])))

(* Pair that re-pairs a paired round whatever allowRepair says             *)
PairIgnoringAllowRepair(t, allowRepair) ==
  IF Cardinality(ActiveIds(t)) = 0
  THEN {Result(t, ErrNoPlayers)}
  ELSE IF t.currentRound < 1
  THEN {Result(t, ErrInvalidState)}
  ELSE LET hasPairings == t.currentRound < SliceLen(t.rounds) /\ Len(t.rounds[t.currentRound]) > 0
           t1 == IF hasPairings THEN [t EXCEPT !.rounds[t.currentRound] = <<>>] ELSE t
       IN IF t1.currentRound = 1
          THEN randomPair(t1)
          ELSE { Result([t1 EXCEPT !.rounds[t1.currentRound] = SwissLoop(t1, ps, 1, {}, <<>>)], Nil)
                 : ps \in getSortedPlayers(t1) }

(* Pair that clears the round's pairings before it looks at allowRepair    *)
PairClearsBeforeCheck(t, allowRepair) ==
  IF Cardinality(ActiveIds(t)) = 0
  THEN {Result(t, ErrNoPlayers)}
  ELSE IF t.currentRound < 1
  THEN {Result(t, ErrInvalidState)}
  ELSE LET hasPairings == t.currentRound < SliceLen(t.rounds) /\ Len(t.rounds[t.currentRound]) > 0
           t1 == IF hasPairings THEN [t EXCEPT !.rounds[t.currentRound] = <<>>] ELSE t
       IN IF hasPairings /\ ~allowRepair
          THEN {Result(t1, ErrAlreadyPaired)}
          ELSE IF t1.currentRound = 1
               THEN randomPair(t1)
               ELSE { Result([t1 EXCEPT !.rounds[t1.currentRound] = SwissLoop(t1, ps, 1, {}, <<>>)], Nil)
                      : ps \in getSortedPlayers(t1) }

(* Pair that does not validate the round index                             *)
PairWithoutRoundCheck(t, allowRepair) ==
  IF Cardinality(ActiveIds(t)) = 0
  THEN {Result(t, ErrNoPlayers)}
  ELSE LET hasPairings == t.currentRound < SliceLen(t.rounds) /\ Len(t.rounds[t.currentRound]) > 0
       IN IF hasPairings /\ ~allowRepair
          THEN {Result(t, ErrAlreadyPaired)}
          ELSE LET t1 == IF hasPairings THEN [t EXCEPT !.rounds[t.currentRound] = <<>>] ELSE t
               IN IF t1.currentRound = 1
                  THEN randomPair(t1)
                  ELSE { Result([t1 EXCEPT !.rounds[t1.currentRound] = SwissLoop(t1, ps, 1, {}, <<>>)], Nil)
                         : ps \in getSortedPlayers(t1) }

Pair(t, allowRepair) ==
  IF Cardinality(ActiveIds(t)) = 0
  THEN {Result(t, ErrNoPlayers)}
  ELSE IF t.currentRound < 1
  THEN {Result(t, ErrInvalidState)}
  ELSE LET hasPairings == t.currentRound < SliceLen(t.rounds) /\ Len(t.rounds[t.currentRound]) > 0
       IN IF hasPairings /\ ~allowRepair
          THEN {Result(t, ErrAlreadyPaired)}
          ELSE LET t1 == IF hasPairings THEN [t EXCEPT !.rounds[t.currentRound] = <<>>] ELSE t
               IN IF t1.currentRound = 1
                  THEN randomPair(t1)
                  ELSE { Result([t1 EXCEPT !.rounds[t1.currentRound] = SwissLoop(t1, ps, 1, {}, <<>>)], Nil)
                         : ps \in getSortedPlayers(t1) }

----------------------------------------------------------------------------
(* Player names and removal.  The source of these operations is not among  *)
(* the files modelled above: they are written from the specification of    *)
(* the registry (sections 4.1 and 4.6) and from the tests that call them.  *)

ErrInvalidInput == "InvalidInput"
ErrNotFound == "NotFound"

(* nameInUse that also counts the names of removed players                 *)
nameInUseByAnyPlayer(t, name) == \E id \in DOMAIN t.players : t.players[id].name = name

(* name is the name of a player that is not removed                        *)
nameInUse(t, name) == \E id \in ActiveIds(t) : t.players[id].name = name

(* AddPlayer of the registry with unique names: the name must also not be  *)
(* the name of an active player.                                           *)
(* The audit note of a player added after the tournament has started       *)
LateEntryNote(round) == <<"Late entry", round>>

(* AddPlayerUniqueName that adds no note to a late player                  *)
AddPlayerUniqueNameNoNote(t, name) ==
  IF name # "" /\ nameInUse(t, name)
  THEN Result(t, ErrInvalidInput)
  ELSE AddPlayer(t, name)

AddPlayerUniqueName(t, name) ==
  IF name # "" /\ nameInUse(t, name)
  THEN Result(t, ErrInvalidInput)
  ELSE LET r == AddPlayer(t, name)
       IN IF r.err = Nil /\ t.started
          THEN Result([r.t EXCEPT !.players[r.t.lastId].notes = Append(@, LateEntryNote(t.currentRound))], Nil)
          ELSE r

(* The audit note a removal in the given round appends                     *)
RemovalNote(round) == <<"removed", round>>

(* The active round's pairings after the removal of id: a bye held by id   *)
(* is deleted, a pairing of id with an opponent becomes the opponent's bye *)
(* in the same place.                                                      *)
(* removeFromRound that leaves a bye held by id where it is                *)
removeFromRoundKeepsBye(round, id) ==
  [k \in 1 .. Len(round) |->
     IF round[k].playerb = BYE_OPPONENT_ID THEN round[k]
     ELSE IF round[k].playera = id THEN ByePairing(round[k].playerb)
     ELSE IF round[k].playerb = id THEN ByePairing(round[k].playera)
     ELSE round[k]]

(* removeFromRound that deletes the pairing of id with its opponent too    *)
removeFromRoundDeletesMatch(round, id) ==
  SelectSeq(round, LAMBDA pairing : pairing.playera # id /\ pairing.playerb # id)

removeFromRound(round, id) ==
  LET heldBye(pairing) == pairing.playera = id /\ pairing.playerb = BYE_OPPONENT_ID
      kept == SelectSeq(round, LAMBDA pairing : ~heldBye(pairing))
  IN [k \in 1 .. Len(kept) |->
        IF kept[k].playera = id THEN ByePairing(kept[k].playerb)
        ELSE IF kept[k].playerb = id THEN ByePairing(kept[k].playera)
        ELSE kept[k]]

(* RemovePlayerById that deletes the player's record                       *)
RemovePlayerByIdDeletes(t, id) ==
  IF id \notin DOMAIN t.players
  THEN Result(t, ErrNotFound)
  ELSE LET t1 == [t EXCEPT !.players = [k \in DOMAIN t.players \ {id} |-> t.players[k]]]
       IN IF t1.currentRound < SliceLen(t1.rounds)
          THEN Result([t1 EXCEPT !.rounds[t1.currentRound] = removeFromRound(@, id)], Nil)
          ELSE Result(t1, Nil)

RemovePlayerById(t, id) ==
  IF id \notin DOMAIN t.players
  THEN Result(t, ErrNotFound)
  ELSE LET player == [t.players[id] EXCEPT !.removed = TRUE,
                                           !.removedInRound = t.currentRound,
                                           !.notes = Append(@, RemovalNote(t.currentRound))]
           t1 == [t EXCEPT !.players = MapSet(t.players, id, player)]
       IN IF t1.currentRound < SliceLen(t1.rounds)
          THEN Result([t1 EXCEPT !.rounds[t1.currentRound] = removeFromRound(@, id)], Nil)
          ELSE Result(t1, Nil)

(* RemovePlayerByName that compares the names without regard to case       *)
RemovePlayerByNameAnyCase(t, name) ==
  LET fold(n) == IF n = "alice" THEN "Alice" ELSE n
      found == { id \in DOMAIN t.players : fold(t.players[id].name) = fold(name) }
  IN IF found = {}
     THEN {Result(t, ErrNotFound)}
     ELSE { RemovePlayerById(t, id) : id \in found }

(* The players of exactly that name; where a removed player and a later    *)
(* player share the name, either may be the one the lookup finds.          *)
RemovePlayerByName(t, name) ==
  LET found == { id \in DOMAIN t.players : t.players[id].name = name }
  IN IF found = {}
     THEN {Result(t, ErrNotFound)}
     ELSE { RemovePlayerById(t, id) : id \in found }

GetPlayerById(t, id) == [player |-> MapGet(t.players, id), exists |-> id \in DOMAIN t.players]

GetPlayerCount(t) == Cardinality(DOMAIN t.players)

----------------------------------------------------------------------------
(* Snapshots                                                               *)

(* DumpTournament: the players in ascending id order and the rounds in     *)
(* slice order, as the records of the export schema.                       *)
DumpTournament(t) ==
  LET ids == DOMAIN t.players
      RECURSIVE sorted(_)
      sorted(S) == IF S = {} THEN <<>> ELSE <<Min(S)>> \o sorted(S \ {Min(S)})
      playerIDs == sorted(ids)
      playerExport(id) ==
        LET p == t.players[id]
        IN [ID |-> id, Name |-> p.name, Points |-> p.points, Wins |-> p.wins, Losses |-> p.losses,
            Draws |-> p.draws, GameWins |-> p.gameWins, GameLosses |-> p.gameLosses,
            GameDraws |-> p.gameDraws, Notes |-> p.notes, Removed |-> p.removed,
            RemovedInRound |-> p.removedInRound]
      pairingExport(pr) ==
        [PlayerA |-> pr.playera, PlayerB |-> pr.playerb, PlayerAWins |-> pr.playeraWins,
         PlayerBWins |-> pr.playerbWins, Draws |-> pr.draws]
  IN [Config |-> t.config,
      LastID |-> t.lastId,
      CurrentRound |-> t.currentRound,
      Started |-> t.started,
      Finished |-> t.finished,
      Players |-> [k \in 1 .. Len(playerIDs) |-> playerExport(playerIDs[k])],
      Rounds |-> [i \in 1 .. SliceLen(t.rounds) |->
                    [k \in 1 .. Len(t.rounds[i - 1]) |-> pairingExport(t.rounds[i - 1][k])]]]

(* LoadTournament on a decoded payload [Config, LastID, CurrentRound,      *)
(* Started, Finished, Players, Rounds]: the fields are copied as they are, none is validated.  The    *)
(* players are written to the map in payload order, so the last entry of   *)
(* an id stays; round i of the slice is entry i + 1 of the payload.        *)
(* LoadTournament that does not copy the removal flag and round            *)
LoadTournamentForgetsRemoved(payload) ==
  LET ids == { payload.Players[k].ID : k \in 1 .. Len(payload.Players) }
      last(id) == CHOOSE k \in 1 .. Len(payload.Players) :
                    /\ payload.Players[k].ID = id
                    /\ \A j \in 1 .. Len(payload.Players) : payload.Players[j].ID = id => j <= k
      player(pe) == [name |-> pe.Name, points |-> pe.Points, wins |-> pe.Wins, losses |-> pe.Losses,
                     draws |-> pe.Draws, gameWins |-> pe.GameWins, gameLosses |-> pe.GameLosses,
                     gameDraws |-> pe.GameDraws, notes |-> pe.Notes, removed |-> FALSE,
                     removedInRound |-> 0]
      row(r) == [k \in 1 .. Len(r) |->
                   Pairing(r[k].PlayerA, r[k].PlayerB, r[k].PlayerAWins, r[k].PlayerBWins, r[k].Draws)]
  IN Result([lastId |-> payload.LastID,
             players |-> [id \in ids |-> player(payload.Players[last(id)])],
             currentRound |-> payload.CurrentRound,
             rounds |-> [i \in 0 .. (Len(payload.Rounds) - 1) |-> row(payload.Rounds[i + 1])],
             config |-> payload.Config,
             started |-> payload.Started,
             finished |-> payload.Finished], Nil)

(* LoadTournament that rebuilds every tournament as one not yet started   *)
LoadTournamentNotStarted(payload) ==
  LET ids == { payload.Players[k].ID : k \in 1 .. Len(payload.Players) }
      last(id) == CHOOSE k \in 1 .. Len(payload.Players) :
                    /\ payload.Players[k].ID = id
                    /\ \A j \in 1 .. Len(payload.Players) : payload.Players[j].ID = id => j <= k
      player(pe) == [name |-> pe.Name, points |-> pe.Points, wins |-> pe.Wins, losses |-> pe.Losses,
                     draws |-> pe.Draws, gameWins |-> pe.GameWins, gameLosses |-> pe.GameLosses,
                     gameDraws |-> pe.GameDraws, notes |-> pe.Notes, removed |-> pe.Removed,
                     removedInRound |-> pe.RemovedInRound]
      row(r) == [k \in 1 .. Len(r) |->
                   Pairing(r[k].PlayerA, r[k].PlayerB, r[k].PlayerAWins, r[k].PlayerBWins, r[k].Draws)]
  IN Result([lastId |-> payload.LastID,
             players |-> [id \in ids |-> player(payload.Players[last(id)])],
             currentRound |-> payload.CurrentRound,
             rounds |-> [i \in 0 .. (Len(payload.Rounds) - 1) |-> row(payload.Rounds[i + 1])],
             config |-> payload.Config,
             started |-> FALSE,
             finished |-> payload.Finished], Nil)

LoadTournament(payload) ==
  LET ids == { payload.Players[k].ID : k \in 1 .. Len(payload.Players) }
      last(id) == CHOOSE k \in 1 .. Len(payload.Players) :
                    /\ payload.Players[k].ID = id
                    /\ \A j \in 1 .. Len(payload.Players) : payload.Players[j].ID = id => j <= k
      player(pe) == [name |-> pe.Name, points |-> pe.Points, wins |-> pe.Wins, losses |-> pe.Losses,
                     draws |-> pe.Draws, gameWins |-> pe.GameWins, gameLosses |-> pe.GameLosses,
                     gameDraws |-> pe.GameDraws, notes |-> pe.Notes, removed |-> pe.Removed,
                     removedInRound |-> pe.RemovedInRound]
      row(r) == [k \in 1 .. Len(r) |->
                   Pairing(r[k].PlayerA, r[k].PlayerB, r[k].PlayerAWins, r[k].PlayerBWins, r[k].Draws)]
  IN Result([lastId |-> payload.LastID,
             players |-> [id \in ids |-> player(payload.Players[last(id)])],
             currentRound |-> payload.CurrentRound,
             rounds |-> [i \in 0 .. (Len(payload.Rounds) - 1) |-> row(payload.Rounds[i + 1])],
             config |-> payload.Config,
             started |-> payload.Started,
             finished |-> payload.Finished], Nil)

----------------------------------------------------------------------------
(* The state machine: one tournament, one caller, one call at a time       *)

T ==
  [lastId |-> lastId, players |-> players, currentRound |-> currentRound, rounds |-> rounds,
   config |-> config, started |-> started, finished |-> finished]

(* The call just made: its name and its arguments ("", 0 and FALSE where   *)
(* the call has no such argument).                                         *)
Call(name, playerName, id, res, allowRepair) ==
  [name |-> name, playerName |-> playerName, id |-> id,
   wins |-> res[1], losses |-> res[2], draws |-> res[3], allowRepair |-> allowRepair]

NoArgs == <<0, 0, 0>>

Returns(r) ==
  /\ lastId' = r.t.lastId
  /\ players' = r.t.players
  /\ currentRound' = r.t.currentRound
  /\ rounds' = r.t.rounds
  /\ config' = r.t.config
  /\ started' = r.t.started
  /\ finished' = r.t.finished
  /\ err' = r.err

(* Total match results a player record holds                               *)
Matches(p) == p.wins + p.losses + p.draws

Init ==
  /\ lastId = NewTournament.lastId
  /\ players = NewTournament.players
  /\ currentRound = NewTournament.currentRound
  /\ rounds = NewTournament.rounds
  /\ config = NewTournament.config
  /\ started = NewTournament.started
  /\ finished = NewTournament.finished
  /\ err = Nil
  /\ op = Call("NewTournament", "", 0, NoArgs, FALSE)

CallAddPlayer ==
  /\ lastId < MaxPlayers
  /\ \E name \in Names :
       /\ Returns(AddPlayer(T, name))
       /\ op' = Call("AddPlayer", name, 0, NoArgs, FALSE)

CallPair ==
  \E allowRepair \in BOOLEAN :
    /\ \E r \in Pair(T, allowRepair) : Returns(r)
    /\ op' = Call("Pair", "", 0, NoArgs, allowRepair)

CallAddResult ==
  \E id \in ResultIds :
    \E res \in ResultArgs :
      /\ Returns(AddResult(T, id, res[1], res[2], res[3]))
      /\ op' = Call("AddResult", "", id, res, FALSE)

CallUpdatePlayerStandings ==
  /\ \A id \in DOMAIN players : Matches(players[id]) < MaxMatches
  /\ Returns(UpdatePlayerStandings(T))
  /\ op' = Call("UpdatePlayerStandings", "", 0, NoArgs, FALSE)

CallNextRound ==
  /\ currentRound < MaxRounds
  /\ \A id \in DOMAIN players : Matches(players[id]) < MaxMatches
  /\ Returns(NextRound(T))
  /\ op' = Call("NextRound", "", 0, NoArgs, FALSE)

Next ==
  \/ CallAddPlayer
  \/ CallPair
  \/ CallAddResult
  \/ CallUpdatePlayerStandings
  \/ CallNextRound

Spec == Init /\ [][Next]_vars

(* The same calls on a tournament rebuilt by LoadTournament.  The payloads *)
(* are the snapshot of a new tournament and the same snapshot with the     *)
(* round number 0, which LoadTournament accepts as it accepts any number.  *)
Snapshots ==
  { [Config |-> DefaultConfig, LastID |-> 0, CurrentRound |-> r, Started |-> FALSE, Finished |-> FALSE,
     Players |-> <<>>, Rounds |-> << <<>>, <<>> >>] : r \in {0, 1} }

InitLoaded ==
  \E payload \in Snapshots :
    LET r == LoadTournament(payload)
    IN /\ lastId = r.t.lastId
       /\ players = r.t.players
       /\ currentRound = r.t.currentRound
       /\ rounds = r.t.rounds
       /\ config = r.t.config
       /\ started = r.t.started
       /\ finished = r.t.finished
       /\ err = r.err
       /\ op = Call("LoadTournament", "", 0, NoArgs, FALSE)

SpecLoaded == InitLoaded /\ [][Next]_vars

(* The registry with unique names and removal.  Names are interchangeable, *)
(* so AddPlayer is given the empty name, a name some player already has,   *)
(* or the first name of PlayerNames no player has yet.                     *)
PlayerNames == <<"Alice", "Bob", "Carol", "Dave">>

NamesToAdd ==
  LET used == { players[id].name : id \in DOMAIN players }
      unused == { k \in 1 .. Len(PlayerNames) : PlayerNames[k] \notin used }
  IN {""} \cup used \cup (IF unused = {} THEN {} ELSE {PlayerNames[Min(unused)]})

(* Names given to RemovePlayerByName: the first name AddPlayer is given    *)
(* and a name that differs from it in case only.                           *)
NamesToRemove == {"Alice", "alice"}

CallAddPlayerUniqueName ==
  /\ lastId < MaxPlayers
  /\ \E name \in NamesToAdd :
       /\ Returns(AddPlayerUniqueName(T, name))
       /\ op' = Call("AddPlayer", name, 0, NoArgs, FALSE)

CallRemovePlayerById ==
  \E id \in 0 .. MaxPlayers :
    /\ Len(MapGet(players, id).notes) < MaxNotes
    /\ Returns(RemovePlayerById(T, id))
    /\ op' = Call("RemovePlayerById", "", id, NoArgs, FALSE)

CallRemovePlayerByName ==
  \E name \in NamesToRemove :
    /\ \A id \in DOMAIN players : players[id].name = name => Len(players[id].notes) < MaxNotes
    /\ \E r \in RemovePlayerByName(T, name) : Returns(r)
    /\ op' = Call("RemovePlayerByName", name, 0, NoArgs, FALSE)

(* AddResult by a player id with a decisive result                         *)
CallAddResultDecisive ==
  \E id \in 1 .. MaxPlayers :
    /\ Returns(AddResult(T, id, 2, 1, 0))
    /\ op' = Call("AddResult", "", id, <<2, 1, 0>>, FALSE)

(* A snapshot of the tournament is taken and loaded in its place.          *)
CallLoadTournament ==
  /\ Returns(LoadTournament(DumpTournament(T)))
  /\ op' = Call("LoadTournament", "", 0, NoArgs, FALSE)

NextRemoval ==
  \/ CallAddPlayerUniqueName
  \/ CallRemovePlayerById
  \/ CallRemovePlayerByName
  \/ CallLoadTournament
  \/ CallPair
  \/ CallAddResultDecisive
  \/ CallUpdatePlayerStandings
  \/ CallNextRound

SpecRemoval == Init /\ [][NextRemoval]_vars

(* AddResult is given any three integers: a decisive result, a result with *)
(* one field at the value that stands for unset, and all three at it.      *)
AnyResultArgs ==
  { <<2, 1, 0>>, <<2, UNINITIALIZED_RESULT, 0>>,
    <<UNINITIALIZED_RESULT, UNINITIALIZED_RESULT, UNINITIALIZED_RESULT>> }

CallAddResultAny ==
  \E id \in ResultIds :
    \E res \in AnyResultArgs :
      /\ Returns(AddResult(T, id, res[1], res[2], res[3]))
      /\ op' = Call("AddResult", "", id, res, FALSE)

NextAnyResult ==
  \/ CallAddPlayer
  \/ CallPair
  \/ CallAddResultAny
  \/ CallUpdatePlayerStandings
  \/ CallNextRound

SpecAnyResult == Init /\ [][NextAnyResult]_vars

(* Three rounds of Swiss pairing: players join under one name, rounds are  *)
(* paired and re-paired, matches get a decisive result and NextRound       *)
(* closes the round.                                                       *)
SwissRounds == 3

CallAddPlayerNamed ==
  /\ lastId < MaxPlayers
  /\ Returns(AddPlayer(T, "Alice"))
  /\ op' = Call("AddPlayer", "Alice", 0, NoArgs, FALSE)

CallNextRoundSwiss ==
  /\ currentRound < SwissRounds
  /\ Returns(NextRound(T))
  /\ op' = Call("NextRound", "", 0, NoArgs, FALSE)

NextSwiss ==
  \/ CallAddPlayerNamed
  \/ CallPair
  \/ CallAddResultDecisive
  \/ CallNextRoundSwiss

SpecSwiss == Init /\ [][NextSwiss]_vars

----------------------------------------------------------------------------
(* The tournament's life: setup, in progress, finished                     *)

GetStatus(t) ==
  IF t.finished THEN "finished" ELSE IF t.started THEN "in_progress" ELSE "setup"

(* StartTournament that marks the tournament started before it looks for   *)
(* players                                                                 *)
StartTournamentMarksFirst(t) ==
  IF GetPlayerCount(t) = 0
  THEN {Result([t EXCEPT !.started = TRUE], ErrNoPlayers)}
  ELSE { IF r.err = Nil THEN Result([r.t EXCEPT !.started = TRUE], Nil) ELSE r : r \in Pair(t, FALSE) }

(* StartTournament: the first round is paired as Pair(false) pairs it, and *)
(* the tournament is started once that has succeeded.                      *)
StartTournament(t) ==
  IF GetPlayerCount(t) = 0
  THEN {Result(t, ErrNoPlayers)}
  ELSE { IF r.err = Nil THEN Result([r.t EXCEPT !.started = TRUE], Nil) ELSE r : r \in Pair(t, FALSE) }

(* The game totals after one pairing of a finished round: a bye adds the   *)
(* configured bye wins, a match adds each side's games.                    *)
AddGames(cfg, ps, pairing) ==
  IF pairing.playerb = BYE_OPPONENT_ID
  THEN LET playerA == MapGet(ps, pairing.playera)
       IN MapSet(ps, pairing.playera, [playerA EXCEPT !.gameWins = @ + cfg.ByeWins])
  ELSE LET playerA == MapGet(ps, pairing.playera)
           playerB == MapGet(ps, pairing.playerb)
           newA == [playerA EXCEPT !.gameWins = @ + pairing.playeraWins,
                                   !.gameLosses = @ + pairing.playerbWins,
                                   !.gameDraws = @ + pairing.draws]
           newB == [playerB EXCEPT !.gameWins = @ + pairing.playerbWins,
                                   !.gameLosses = @ + pairing.playeraWins,
                                   !.gameDraws = @ + pairing.draws]
       IN MapSet(MapSet(ps, pairing.playera, newA), pairing.playerb, newB)

RECURSIVE GamesPass(_, _, _, _)
GamesPass(cfg, ps, round, i) ==
  IF i > Len(round) THEN ps
  ELSE GamesPass(cfg, AddGames(cfg, ps, round[i]), round, i + 1)

(* UpdatePlayerStandings that also accumulates the game totals             *)
UpdatePlayerStandingsGames(t) ==
  LET r == UpdatePlayerStandings(t)
  IN IF r.err # Nil
     THEN r
     ELSE Result([r.t EXCEPT !.players = GamesPass(t.config, @, t.rounds[t.currentRound], 1)], Nil)

(* NextRound on top of it                                                  *)
NextRoundGames(t) ==
  LET r == UpdatePlayerStandingsGames(t)
  IN IF r.err # Nil
     THEN r
     ELSE LET cr == r.t.currentRound + 1
              last == Max(SliceLen(r.t.rounds) - 1, cr)
          IN Result([r.t EXCEPT !.currentRound = cr,
                                !.rounds = [i \in 0 .. last |-> IF i \in DOMAIN r.t.rounds THEN r.t.rounds[i] ELSE <<>>]],
                    Nil)

----------------------------------------------------------------------------
(* Standings and tiebreakers.  A percentage is the fraction <<n, d>> with  *)
(* d > 0; fractions are compared by cross multiplication.                  *)

FracLeq(a, b) == a[1] * b[2] <= b[1] * a[2]

FracEq(a, b) == a[1] * b[2] = b[1] * a[2]

FracAdd(a, b) == <<a[1] * b[2] + b[1] * a[2], a[2] * b[2]>>

OneThird == <<1, 3>>

(* The one-third floor of an opponent's percentage                         *)
Floored(q) == IF FracLeq(q, OneThird) THEN OneThird ELSE q

GamesPlayed(p) == p.gameWins + p.gameLosses + p.gameDraws

GameWinPct(p) == IF GamesPlayed(p) = 0 THEN <<0, 1>> ELSE <<p.gameWins, GamesPlayed(p)>>

MatchWinPct(p) == IF Matches(p) = 0 THEN <<0, 1>> ELSE <<p.wins, Matches(p)>>

(* A round is completed when it has pairings and each has its result       *)
RoundCompleted(round) == Len(round) > 0 /\ \A k \in 1 .. Len(round) : ~IsIncomplete(round[k])

(* The distinct opponents id met in the completed rounds, byes left out    *)
Opponents(t, id) ==
  LET met(round) ==
        { round[k].playerb : k \in { j \in 1 .. Len(round) : round[j].playera = id } }
          \cup { round[k].playera : k \in { j \in 1 .. Len(round) : round[j].playerb = id } }
  IN UNION { IF RoundCompleted(t.rounds[i]) THEN met(t.rounds[i]) \ {BYE_OPPONENT_ID} ELSE {}
             : i \in { j \in DOMAIN t.rounds : j >= 1 /\ j <= t.currentRound } }

(* The percentage of the given kind, of matches or of games                *)
PctOf(p, kind) == IF kind = "match" THEN MatchWinPct(p) ELSE GameWinPct(p)

RECURSIVE FracSum(_, _, _)
FracSum(t, S, kind) ==
  IF S = {} THEN <<0, 1>>
  ELSE LET o == Min(S) IN FracAdd(Floored(PctOf(MapGet(t.players, o), kind)), FracSum(t, S \ {o}, kind))

(* The average of the opponents' floored percentages; none is the value    *)
(* of a player who has met no opponent.                                    *)
OpponentAverage(t, id, kind, none) ==
  LET S == Opponents(t, id)
      sum == FracSum(t, S, kind)
  IN IF S = {} THEN none ELSE <<sum[1], sum[2] * Cardinality(S)>>

(* The values a player without opponents may be given: the sources fix the *)
(* floor of each opponent's percentage, not the average of none.           *)
NoOpponentValues == { <<0, 1>>, OneThird }

Tiebreakers(t, id, none) ==
  [GameWinPercentage |-> GameWinPct(t.players[id]),
   OpponentMatchWinPct |-> OpponentAverage(t, id, "match", none),
   OpponentGameWinPct |-> OpponentAverage(t, id, "game", none)]

(* a stands before b or level with it: points, then opponent match-win,    *)
(* game-win and opponent game-win percentage, each descending              *)
(* RankedBefore that breaks a tie in points by the lower opponent          *)
(* match-win percentage                                                    *)
RankedBeforeLowerFirst(a, b) ==
  \/ a.Points > b.Points
  \/ /\ a.Points = b.Points
     /\ \/ ~FracLeq(b.Tiebreakers.OpponentMatchWinPct, a.Tiebreakers.OpponentMatchWinPct)
        \/ /\ FracEq(a.Tiebreakers.OpponentMatchWinPct, b.Tiebreakers.OpponentMatchWinPct)
           /\ \/ ~FracLeq(a.Tiebreakers.GameWinPercentage, b.Tiebreakers.GameWinPercentage)
              \/ /\ FracEq(a.Tiebreakers.GameWinPercentage, b.Tiebreakers.GameWinPercentage)
                 /\ FracLeq(b.Tiebreakers.OpponentGameWinPct, a.Tiebreakers.OpponentGameWinPct)

RankedBefore(a, b) ==
  \/ a.Points > b.Points
  \/ /\ a.Points = b.Points
     /\ \/ ~FracLeq(a.Tiebreakers.OpponentMatchWinPct, b.Tiebreakers.OpponentMatchWinPct)
        \/ /\ FracEq(a.Tiebreakers.OpponentMatchWinPct, b.Tiebreakers.OpponentMatchWinPct)
           /\ \/ ~FracLeq(a.Tiebreakers.GameWinPercentage, b.Tiebreakers.GameWinPercentage)
              \/ /\ FracEq(a.Tiebreakers.GameWinPercentage, b.Tiebreakers.GameWinPercentage)
                 /\ FracLeq(b.Tiebreakers.OpponentGameWinPct, a.Tiebreakers.OpponentGameWinPct)

(* a and b have the same points and the same three tiebreakers             *)
SameTuple(a, b) ==
  /\ a.Points = b.Points
  /\ FracEq(a.Tiebreakers.OpponentMatchWinPct, b.Tiebreakers.OpponentMatchWinPct)
  /\ FracEq(a.Tiebreakers.GameWinPercentage, b.Tiebreakers.GameWinPercentage)
  /\ FracEq(a.Tiebreakers.OpponentGameWinPct, b.Tiebreakers.OpponentGameWinPct)

(* The rank of entry k of a sorted list: 1, and one more at each entry     *)
(* whose tuple differs from the entry before it.                           *)
(* DenseRank that counts the entries standing before, as 1, 1, 3 does      *)
DenseRankByPosition(s, k) == Min({ j \in 1 .. k : SameTuple(s[j], s[k]) })

DenseRank(s, k) == 1 + Cardinality({ j \in 2 .. k : ~SameTuple(s[j - 1], s[j]) })

(* GetStandings: every order of the players the sort may produce, ranked   *)
GetStandings(t, none) ==
  LET RECURSIVE entries(_)
      entries(S) ==
        IF S = {} THEN <<>>
        ELSE LET id == Min(S)
             IN <<[Rank |-> 0, PlayerID |-> id, Name |-> t.players[id].name,
                   Points |-> t.players[id].points, Wins |-> t.players[id].wins,
                   Losses |-> t.players[id].losses, Draws |-> t.players[id].draws,
                   Tiebreakers |-> Tiebreakers(t, id, none)]>> \o entries(S \ {id})
      entry == entries(DOMAIN t.players)
      orders == { o \in Perms(1 .. Len(entry)) :
                    \A k \in 2 .. Len(o) : RankedBefore(entry[o[k - 1]], entry[o[k]]) }
      RECURSIVE ranked(_, _)
      ranked(s, k) ==
        IF k > Len(s) THEN <<>>
        ELSE <<[s[k] EXCEPT !.Rank = DenseRank(s, k)]>> \o ranked(s, k + 1)
  IN { ranked([k \in 1 .. Len(o) |-> entry[o[k]]], 1) : o \in orders }

----------------------------------------------------------------------------
(* The whole engine: registry, start, pairing, results with game totals,   *)
(* removal and reloading.                                                  *)

CallStartTournament ==
  /\ \E r \in StartTournament(T) : Returns(r)
  /\ op' = Call("StartTournament", "", 0, NoArgs, FALSE)

CallUpdatePlayerStandingsGames ==
  /\ \A id \in DOMAIN players : Matches(players[id]) < MaxMatches
  /\ Returns(UpdatePlayerStandingsGames(T))
  /\ op' = Call("UpdatePlayerStandings", "", 0, NoArgs, FALSE)

CallNextRoundGames ==
  /\ currentRound < MaxRounds
  /\ \A id \in DOMAIN players : Matches(players[id]) < MaxMatches
  /\ Returns(NextRoundGames(T))
  /\ op' = Call("NextRound", "", 0, NoArgs, FALSE)

(* Pair as a caller that never asks for a repair calls it               *)
CallPairNoRepair ==
  /\ \E r \in Pair(T, FALSE) : Returns(r)
  /\ op' = Call("Pair", "", 0, NoArgs, FALSE)

NextLifecycle ==
  \/ CallAddPlayerUniqueName
  \/ CallStartTournament
  \/ CallPairNoRepair
  \/ CallAddResultDecisive
  \/ CallUpdatePlayerStandingsGames
  \/ CallNextRoundGames
  \/ CallRemovePlayerById
  \/ CallLoadTournament

SpecLifecycle == Init /\ [][NextLifecycle]_vars

----------------------------------------------------------------------------
(* Vocabulary of the properties                                            *)

(* The pairings of the current round                                       *)
CurrentPairings == rounds[currentRound]

IsBye(pairing) == pairing.playerb = BYE_OPPONENT_ID

AllUnset(pairing) ==
  /\ pairing.playeraWins = UNINITIALIZED_RESULT
  /\ pairing.playerbWins = UNINITIALIZED_RESULT
  /\ pairing.draws = UNINITIALIZED_RESULT

(* The places (index, side) at which id stands in a round                  *)
Places(round, id) ==
  { <<i, "a">> : i \in { k \in 1 .. Len(round) : round[k].playera = id } }
    \cup { <<i, "b">> : i \in { k \in 1 .. Len(round) : round[k].playerb = id } }

(* The players paired in a round: the bye sentinel is no player            *)
PairedPlayers(round) ==
  { round[i].playera : i \in 1 .. Len(round) }
    \cup { round[i].playerb : i \in { k \in 1 .. Len(round) : ~IsBye(round[k]) } }

Byes(round) == { i \in 1 .. Len(round) : IsBye(round[i]) }

(* The registered players that are not removed                             *)
ActivePlayers == { id \in DOMAIN players : ~players[id].removed }

Succeeded(name) == op.name = name /\ err = Nil

----------------------------------------------------------------------------
(* C1: after every successful Pair, in round 1 or later and with either    *)
(* value of allowRepair, the current round's pairings hold every active    *)
(* player exactly once, as playerA or playerB of one pairing, and no id    *)
(* that is not an active player, the bye sentinel as playerB apart.        *)
C1_PairCoversEveryPlayerOnce ==
  Succeeded("Pair") =>
    /\ \A id \in ActivePlayers : Cardinality(Places(CurrentPairings, id)) = 1
    /\ \A i \in 1 .. Len(CurrentPairings) :
         /\ CurrentPairings[i].playera \in ActivePlayers
         /\ CurrentPairings[i].playerb \in ActivePlayers \cup {BYE_OPPONENT_ID}

(* A re-pairing of round 2 over three players has succeeded.               *)
C1_Witness ==
  /\ Succeeded("Pair")
  /\ op.allowRepair
  /\ currentRound = 2
  /\ Cardinality(ActivePlayers) = 3

----------------------------------------------------------------------------
(* C2: UpdatePlayerStandings is all-or-nothing: called while a non-bye     *)
(* pairing of the current round has an unset result field it returns the   *)
(* incomplete-match error and changes no player's wins, losses, draws or   *)
(* points, also when other pairings of the round are complete.             *)
HasIncompleteMatch(round) ==
  \E i \in 1 .. Len(round) : ~IsBye(round[i]) /\ IsIncomplete(round[i])

C2_UpdateIsAllOrNothing ==
  [][ (op'.name = "UpdatePlayerStandings" /\ HasIncompleteMatch(CurrentPairings))
        => (err' = ErrIncomplete /\ players' = players) ]_vars

(* The update was refused for a round whose bye is complete, whose match   *)
(* is not, and whose players hold statistics of an earlier round.          *)
C2_Witness ==
  /\ op.name = "UpdatePlayerStandings"
  /\ err = ErrIncomplete
  /\ HasIncompleteMatch(CurrentPairings)
  /\ \E i \in 1 .. Len(CurrentPairings) : ~IsIncomplete(CurrentPairings[i])
  /\ \E id \in DOMAIN players : players[id].points > 0

----------------------------------------------------------------------------
(* C3: NextRound advances only a finalized round: when the round is        *)
(* unpaired or a pairing is incomplete it returns the error of             *)
(* UpdatePlayerStandings and currentRound, the rounds and the players are  *)
(* unchanged; otherwise it succeeds and currentRound grows by exactly 1.   *)
C3_NextRoundOnlyOnFinalizedRound ==
  [][ op'.name = "NextRound" =>
        IF Len(CurrentPairings) = 0
        THEN err' = ErrNoPairings /\ UNCHANGED <<lastId, players, currentRound, rounds>>
        ELSE IF \E i \in 1 .. Len(CurrentPairings) : IsIncomplete(CurrentPairings[i])
        THEN err' = ErrIncomplete /\ UNCHANGED <<lastId, players, currentRound, rounds>>
        ELSE err' = Nil /\ currentRound' = currentRound + 1 ]_vars

(* NextRound was refused because a match of the paired round has no result *)
C3_Witness ==
  /\ op.name = "NextRound"
  /\ err = ErrIncomplete
  /\ HasIncompleteMatch(CurrentPairings)

----------------------------------------------------------------------------
----------------------------------------------------------------------------
----------------------------------------------------------------------------
(* C6: AddResult on a paired round with an id that is not the id of a      *)
(* player paired in it is rejected with the player-not-found error and     *)
(* changes no pairing's result fields, whether or not the round has a bye. *)
C6_UnknownIdIsRejected ==
  [][ (/\ op'.name = "AddResult"
       /\ Len(CurrentPairings) > 0
       /\ op'.id \notin PairedPlayers(CurrentPairings))
        => (err' = ErrPlayerNotFound /\ rounds' = rounds) ]_vars

----------------------------------------------------------------------------
(* C7: AddResult stores a result from player A's side whoever reports it:  *)
(* reported by player A the pairing holds playerAWins = wins and           *)
(* playerBWins = losses, reported by player B it holds playerAWins =       *)
(* losses and playerBWins = wins; draws is stored as given.                *)
C7_ResultStoredFromPlayerASide ==
  Succeeded("AddResult") =>
    \E i \in 1 .. Len(CurrentPairings) :
      LET pairing == CurrentPairings[i]
      IN /\ pairing.draws = op.draws
         /\ \/ /\ pairing.playera = op.id
               /\ pairing.playeraWins = op.wins
               /\ pairing.playerbWins = op.losses
            \/ /\ pairing.playera # op.id
               /\ pairing.playerb = op.id
               /\ pairing.playeraWins = op.losses
               /\ pairing.playerbWins = op.wins

(* Player B of a match has reported a 2-1 win.                             *)
C7_Witness ==
  /\ Succeeded("AddResult")
  /\ op.wins > op.losses
  /\ \E i \in 1 .. Len(CurrentPairings) :
       ~IsBye(CurrentPairings[i]) /\ CurrentPairings[i].playerb = op.id

----------------------------------------------------------------------------
(* C8: a successful UpdatePlayerStandings decides each non-bye pairing by  *)
(* games won: more games won is one match win and 3 points against one     *)
(* match loss and 0 points, equal games won is one match draw and 1 point  *)
(* for both sides whatever draws holds; a bye is one match win and 3       *)
(* points for its player.                                                  *)
StatsOf(p) == [wins |-> p.wins, losses |-> p.losses, draws |-> p.draws, points |-> p.points]

Plus(p, w, l, d, pts) ==
  [wins |-> p.wins + w, losses |-> p.losses + l, draws |-> p.draws + d, points |-> p.points + pts]

GotWin(id) == StatsOf(players'[id]) = Plus(players[id], 1, 0, 0, 3)

GotLoss(id) == StatsOf(players'[id]) = Plus(players[id], 0, 1, 0, 0)

GotDraw(id) == StatsOf(players'[id]) = Plus(players[id], 0, 0, 1, 1)

StandingsUpdated == op'.name \in {"UpdatePlayerStandings", "NextRound"} /\ err' = Nil

C8_MatchDecidedByGamesWon ==
  [][ StandingsUpdated =>
        \A i \in 1 .. Len(CurrentPairings) :
          LET pairing == CurrentPairings[i]
          IN IF IsBye(pairing) THEN GotWin(pairing.playera)
             ELSE IF pairing.playeraWins > pairing.playerbWins
             THEN GotWin(pairing.playera) /\ GotLoss(pairing.playerb)
             ELSE IF pairing.playerbWins > pairing.playeraWins
             THEN GotWin(pairing.playerb) /\ GotLoss(pairing.playera)
             ELSE GotDraw(pairing.playera) /\ GotDraw(pairing.playerb) ]_vars

(* The standings were updated from a round with a bye and a match of equal *)
(* games won: the bye holder has a win, both others have a draw.           *)
C8_Witness ==
  /\ Succeeded("UpdatePlayerStandings")
  /\ \E i \in 1 .. Len(CurrentPairings) :
       /\ ~IsBye(CurrentPairings[i])
       /\ CurrentPairings[i].playeraWins = CurrentPairings[i].playerbWins
       /\ players[CurrentPairings[i].playera].draws = 1
       /\ players[CurrentPairings[i].playerb].draws = 1
  /\ \E i \in 1 .. Len(CurrentPairings) :
       IsBye(CurrentPairings[i]) /\ players[CurrentPairings[i].playera].wins = 1

----------------------------------------------------------------------------
(* C9: a successful UpdatePlayerStandings gives every player of the        *)
(* current round exactly one more match result and every other player     *)
(* none, and changes no pairing and not currentRound; the first update of  *)
(* round 1 with n players paired and only decisive results leaves total    *)
(* wins ceil(n/2), total losses floor(n/2) and total points 3*ceil(n/2).   *)
RECURSIVE Total(_, _, _)
Total(ps, ids, field) ==
  IF ids = {} THEN 0
  ELSE LET id == CHOOSE x \in ids : TRUE
       IN ps[id][field] + Total(ps, ids \ {id}, field)

OnlyDecisive(round) ==
  \A i \in 1 .. Len(round) : ~IsBye(round[i]) => round[i].playeraWins # round[i].playerbWins

NoStatsYet == \A id \in DOMAIN players : Matches(players[id]) = 0 /\ players[id].points = 0

C9_OneResultPerPairedPlayer ==
  [][ (op'.name = "UpdatePlayerStandings" /\ err' = Nil) =>
        /\ DOMAIN players' = DOMAIN players
        /\ \A id \in DOMAIN players :
             Matches(players'[id]) - Matches(players[id])
               = IF id \in PairedPlayers(CurrentPairings) THEN 1 ELSE 0
        /\ UNCHANGED <<rounds, currentRound>>
        /\ (currentRound = 1 /\ NoStatsYet /\ OnlyDecisive(CurrentPairings)) =>
             LET n == Cardinality(PairedPlayers(CurrentPairings))
             IN /\ Total(players', DOMAIN players', "wins") = (n + 1) \div 2
                /\ Total(players', DOMAIN players', "losses") = n \div 2
                /\ Total(players', DOMAIN players', "draws") = 0
                /\ Total(players', DOMAIN players', "points") = 3 * ((n + 1) \div 2) ]_vars

(* Round 1 of three players with a decisive match has been folded in once: *)
(* 2 wins, 1 loss, 6 points in total.                                      *)
C9_Witness ==
  /\ Succeeded("UpdatePlayerStandings")
  /\ currentRound = 1
  /\ Cardinality(PairedPlayers(CurrentPairings)) = 3
  /\ OnlyDecisive(CurrentPairings)
  /\ Total(players, DOMAIN players, "wins") = 2
  /\ Total(players, DOMAIN players, "losses") = 1
  /\ Total(players, DOMAIN players, "points") = 6

----------------------------------------------------------------------------
(* C10: a pairing set produced by Pair over n players has ceil(n/2)        *)
(* pairings of which n mod 2 are byes; a bye has the bye sentinel as       *)
(* playerB and the results 2-0-0, a non-bye pairing has all three result   *)
(* fields unset.                                                           *)
C10_PairingCountAndResults ==
  Succeeded("Pair") =>
    LET n == Cardinality(ActivePlayers)
    IN /\ Len(CurrentPairings) = (n + 1) \div 2
       /\ Cardinality(Byes(CurrentPairings)) = n % 2
       /\ \A i \in 1 .. Len(CurrentPairings) :
            IF IsBye(CurrentPairings[i])
            THEN /\ CurrentPairings[i].playeraWins = 2
                 /\ CurrentPairings[i].playerbWins = 0
                 /\ CurrentPairings[i].draws = 0
            ELSE AllUnset(CurrentPairings[i])

(* Round 1 has just been paired over three players: two pairings, one bye. *)
C10_Witness ==
  /\ Succeeded("Pair")
  /\ currentRound = 1
  /\ Cardinality(ActivePlayers) = 3
  /\ Len(CurrentPairings) = 2
  /\ Cardinality(Byes(CurrentPairings)) = 1

----------------------------------------------------------------------------
(* C11: every Pair call, with either value of allowRepair, made with no    *)
(* active player returns the no-players error, every Pair call made with   *)
(* an active player and a current round below 1 returns the invalid-state  *)
(* error, and in both cases the rounds are what they were: no pairing is   *)
(* created.                                                                *)
C11_PairRejectsNoPlayersAndRoundBelowOne ==
  [][ op'.name = "Pair" =>
        /\ ActivePlayers = {} => (err' = ErrNoPlayers /\ rounds' = rounds)
        /\ (ActivePlayers # {} /\ currentRound < 1) => (err' = ErrInvalidState /\ rounds' = rounds) ]_vars

(* Pair was refused on a loaded tournament with a player and round 0       *)
C11_Witness ==
  /\ op.name = "Pair"
  /\ err = ErrInvalidState
  /\ currentRound = 0
  /\ ActivePlayers # {}
  /\ \A i \in DOMAIN rounds : rounds[i] = <<>>

----------------------------------------------------------------------------
(* C12: in every reachable state the current round's pairings are empty    *)
(* or hold every active player exactly once.                               *)
C12_RoundEmptyOrCoversActivePlayers ==
  \/ CurrentPairings = <<>>
  \/ \A id \in ActivePlayers : Cardinality(Places(CurrentPairings, id)) = 1

----------------------------------------------------------------------------
(* C13: every AddPlayer call with the empty name returns an error and      *)
(* leaves the id counter, the players and the rounds as they were, so the  *)
(* call consumes no id; every AddPlayer call that succeeds registers its   *)
(* player under the id one above the counter it found.                     *)
C13_EmptyNameConsumesNoId ==
  [][ op'.name = "AddPlayer" =>
        /\ op'.playerName = "" =>
             /\ err' = ErrEmptyName
             /\ UNCHANGED <<lastId, players, currentRound, rounds>>
        /\ err' = Nil =>
             /\ lastId' = lastId + 1
             /\ DOMAIN players' = DOMAIN players \cup {lastId + 1}
             /\ players'[lastId + 1].name = op'.playerName ]_vars

(* AddPlayer("") has been refused on a tournament that has a player        *)
C13_Witness ==
  /\ op.name = "AddPlayer"
  /\ op.playerName = ""
  /\ err = ErrEmptyName
  /\ lastId = 1
  /\ DOMAIN players = {1}

----------------------------------------------------------------------------
----------------------------------------------------------------------------
(* C15: ids are assigned 1, 2, 3, ... in the order of the successful       *)
(* AddPlayer calls.  In every step the counter does not decrease and no    *)
(* registered id disappears; the registered ids are always 1 .. lastId; a  *)
(* successful AddPlayer registers exactly the id lastId + 1, which no      *)
(* player had before, and no other step registers an id, removals and      *)
(* reloads included.                                                       *)
C15_IdsAreAssignedInOrder ==
  [][ /\ lastId' >= lastId
      /\ DOMAIN players \subseteq DOMAIN players'
      /\ DOMAIN players' = 1 .. lastId'
      /\ IF op'.name = "AddPlayer" /\ err' = Nil
         THEN /\ lastId' = lastId + 1
              /\ DOMAIN players' = DOMAIN players \cup {lastId + 1}
              /\ \A id \in DOMAIN players : lastId + 1 > id
         ELSE /\ lastId' = lastId
              /\ DOMAIN players' = DOMAIN players ]_vars

(* A player was added after a removal and got the id 3                     *)
C15_Witness ==
  /\ op.name = "AddPlayer"
  /\ err = Nil
  /\ lastId = 3
  /\ DOMAIN players = {1, 2, 3}
  /\ players[1].removed
  /\ ~players[3].removed

----------------------------------------------------------------------------
(* C16: a removal deletes no record.  A successful RemovePlayerById or     *)
(* RemovePlayerByName leaves the player count as it was, and the player it *)
(* names is found by id afterwards, with removed set.  In every step, the  *)
(* removal itself included, a player who is or becomes removed stays       *)
(* registered and removed, keeps wins, losses, draws and points, and keeps *)
(* every pairing of a past round it stands in.                             *)
RemovalSucceeded == op'.name \in {"RemovePlayerById", "RemovePlayerByName"} /\ err' = Nil

InPairing(pairing, id) == pairing.playera = id \/ pairing.playerb = id

C16_RemovalKeepsRecordAndHistory ==
  [][ /\ RemovalSucceeded =>
           /\ GetPlayerCount([players |-> players']) = GetPlayerCount([players |-> players])
           /\ op'.name = "RemovePlayerById" =>
                LET found == GetPlayerById([players |-> players'], op'.id)
                IN found.exists /\ found.player.removed
           /\ op'.name = "RemovePlayerByName" =>
                \E id \in DOMAIN players' :
                  /\ players'[id].name = op'.playerName
                  /\ players'[id].removed
      /\ \A id \in DOMAIN players :
           (players[id].removed \/ (RemovalSucceeded /\ id \in DOMAIN players' /\ players'[id].removed)
              \/ (RemovalSucceeded /\ id \notin DOMAIN players')) =>
             /\ id \in DOMAIN players'
             /\ players'[id].removed
             /\ StatsOf(players'[id]) = StatsOf(players[id])
             /\ \A r \in 1 .. (currentRound - 1) :
                  \A k \in 1 .. Len(rounds[r]) :
                    InPairing(rounds[r][k], id) =>
                      /\ r \in DOMAIN rounds'
                      /\ k <= Len(rounds'[r])
                      /\ rounds'[r][k] = rounds[r][k] ]_vars

(* A player who won a match of round 1 and was removed in round 2 is still *)
(* registered with that win and that pairing after the standings of round  *)
(* 2 were updated.                                                         *)
C16_Witness ==
  /\ Succeeded("UpdatePlayerStandings")
  /\ currentRound = 2
  /\ \E id \in DOMAIN players :
       /\ players[id].removed
       /\ players[id].removedInRound = 2
       /\ players[id].wins = 1
       /\ \E k \in 1 .. Len(rounds[1]) : InPairing(rounds[1][k], id) /\ ~IsBye(rounds[1][k])

----------------------------------------------------------------------------
----------------------------------------------------------------------------
(* The players a removal step has just marked as removed                   *)
RemovedNow ==
  { id \in DOMAIN players :
      /\ RemovalSucceeded
      /\ id \in DOMAIN players'
      /\ players'[id].removed
      /\ players'[id] # players[id] }

(* The sequence s without its element k                                    *)
Without(s, k) == SubSeq(s, 1, k - 1) \o SubSeq(s, k + 1, Len(s))

(* C18: when a removal removes the player who holds the bye of the current *)
(* round, that bye pairing is deleted: the round has one pairing less and  *)
(* the other pairings are what and where they were, in the same order; no  *)
(* other round changes.                                                    *)
C18_RemovingByeHolderDeletesBye ==
  [][ \A id \in RemovedNow :
        \A k \in 1 .. Len(CurrentPairings) :
          (CurrentPairings[k].playera = id /\ IsBye(CurrentPairings[k])) =>
            /\ currentRound' = currentRound
            /\ Len(rounds'[currentRound]) = Len(CurrentPairings) - 1
            /\ rounds'[currentRound] = Without(CurrentPairings, k)
            /\ \A r \in DOMAIN rounds : r # currentRound => rounds'[r] = rounds[r]
            /\ DOMAIN rounds' = DOMAIN rounds ]_vars

(* Player 1 of three was removed and the round is left with the one match  *)
(* of players 2 and 3: player 1 held its bye.                              *)
C18_Witness ==
  /\ Succeeded("RemovePlayerById")
  /\ op.id = 1
  /\ DOMAIN players = {1, 2, 3}
  /\ ActivePlayers = {2, 3}
  /\ Len(CurrentPairings) = 1
  /\ ~IsBye(CurrentPairings[1])
  /\ PairedPlayers(CurrentPairings) = {2, 3}

----------------------------------------------------------------------------
(* C19: when a removal removes a player who has an opponent in the current *)
(* round, the round keeps its number of pairings and that pairing becomes, *)
(* in its place, the opponent's bye: playerA is the opponent, playerB the  *)
(* bye sentinel, the results the bye values 2-0-0; the other pairings are  *)
(* unchanged and the removed player stands nowhere in the round.           *)
C19_RemovingOpponentGivesBye ==
  [][ \A id \in RemovedNow :
        \A k \in 1 .. Len(CurrentPairings) :
          (InPairing(CurrentPairings[k], id) /\ ~IsBye(CurrentPairings[k])) =>
            LET old == CurrentPairings[k]
                opponent == IF old.playera = id THEN old.playerb ELSE old.playera
                new == rounds'[currentRound]
            IN /\ currentRound' = currentRound
               /\ Len(new) = Len(CurrentPairings)
               /\ new[k] = Pairing(opponent, BYE_OPPONENT_ID, BYE_WINS, BYE_LOSSES, BYE_DRAWS)
               /\ \A j \in 1 .. Len(new) : j # k => new[j] = CurrentPairings[j]
               /\ Places(new, id) = {} ]_vars

(* Player 1 of three was removed by name and the round now holds the byes  *)
(* of players 2 and 3: player 1 had one of them as its opponent.           *)
C19_Witness ==
  /\ Succeeded("RemovePlayerByName")
  /\ op.playerName = "Alice"
  /\ DOMAIN players = {1, 2, 3}
  /\ ActivePlayers = {2, 3}
  /\ players[1].name = "Alice"
  /\ Len(CurrentPairings) = 2
  /\ \A k \in 1 .. 2 : CurrentPairings[k] = ByePairing(CurrentPairings[k].playera)
  /\ PairedPlayers(CurrentPairings) = {2, 3}

----------------------------------------------------------------------------
(* C20: every RemovePlayerById call with an id no player has, and every    *)
(* RemovePlayerByName call with a name that is not exactly the name of a   *)
(* player (a name that differs in case only is another name), returns the  *)
(* not-found error and leaves every player and every pairing as it was.    *)
C20_UnknownPlayerIsNotRemoved ==
  [][ /\ (op'.name = "RemovePlayerById" /\ op'.id \notin DOMAIN players) =>
           /\ err' = ErrNotFound
           /\ UNCHANGED <<lastId, players, currentRound, rounds>>
      /\ (op'.name = "RemovePlayerByName"
            /\ \A id \in DOMAIN players : players[id].name # op'.playerName) =>
           /\ err' = ErrNotFound
           /\ UNCHANGED <<lastId, players, currentRound, rounds>> ]_vars

(* RemovePlayerByName("alice") was refused while the active player Alice   *)
(* stands in a match of the current round.                                 *)
C20_Witness ==
  /\ op.name = "RemovePlayerByName"
  /\ op.playerName = "alice"
  /\ err = ErrNotFound
  /\ \E id \in ActivePlayers :
       /\ players[id].name = "Alice"
       /\ \E k \in 1 .. Len(CurrentPairings) :
            InPairing(CurrentPairings[k], id) /\ ~IsBye(CurrentPairings[k])

----------------------------------------------------------------------------
(* C21: a new tournament has status setup.  StartTournament without an     *)
(* active player fails with the no-players error and leaves the status as  *)
(* it is; StartTournament on a tournament in setup with an active player   *)
(* and round 1 unpaired succeeds, pairs round 1 over every active player   *)
(* and makes the status in_progress.  No step takes a status other than    *)
(* setup back to setup.                                                    *)
C21_StartMovesSetupToInProgress ==
  /\ GetStatus(T) = "setup"
  /\ [][
      /\ (op'.name = "StartTournament" /\ ActivePlayers = {}) =>
           /\ err' = ErrNoPlayers
           /\ GetStatus(T)' = GetStatus(T)
           /\ rounds' = rounds
      /\ (/\ op'.name = "StartTournament"
          /\ ActivePlayers # {}
          /\ GetStatus(T) = "setup"
          /\ currentRound = 1
          /\ Len(rounds[1]) = 0) =>
           /\ err' = Nil
           /\ GetStatus(T)' = "in_progress"
           /\ currentRound' = 1
           /\ \A id \in ActivePlayers : Cardinality(Places(rounds'[1], id)) = 1
      /\ GetStatus(T) # "setup" => GetStatus(T)' # "setup" ]_vars

(* StartTournament has just paired round 1 of three players.               *)
C21_Witness ==
  /\ Succeeded("StartTournament")
  /\ GetStatus(T) = "in_progress"
  /\ Cardinality(ActivePlayers) = 3
  /\ Len(rounds[1]) = 2

----------------------------------------------------------------------------
----------------------------------------------------------------------------
(* An entry's sort key is strictly better than another's                   *)
StrictlyBetter(a, b) ==
  LET ta == a.Tiebreakers
      tb == b.Tiebreakers
  IN \/ a.Points > b.Points
     \/ /\ a.Points = b.Points
        /\ \/ ~FracLeq(ta.OpponentMatchWinPct, tb.OpponentMatchWinPct)
           \/ /\ FracEq(ta.OpponentMatchWinPct, tb.OpponentMatchWinPct)
              /\ \/ ~FracLeq(ta.GameWinPercentage, tb.GameWinPercentage)
                 \/ /\ FracEq(ta.GameWinPercentage, tb.GameWinPercentage)
                    /\ ~FracLeq(ta.OpponentGameWinPct, tb.OpponentGameWinPct)

(* C24: GetStandings returns a list with every player once, carrying the   *)
(* player's points; no entry has more points than an entry before it, and  *)
(* no entry is better than an entry before it by points, then opponent     *)
(* match-win, then game-win, then opponent game-win percentage.            *)
C24_StandingsAreSortedByPointsThenTiebreakers ==
  \A none \in NoOpponentValues :
    LET standings == GetStandings(T, none)
    IN /\ standings # {}
       /\ \A s \in standings :
         /\ Len(s) = Cardinality(DOMAIN players)
         /\ \A id \in DOMAIN players :
              \E k \in 1 .. Len(s) : s[k].PlayerID = id /\ s[k].Points = players[id].points
         /\ \A i, j \in 1 .. Len(s) :
              i < j => s[j].Points <= s[i].Points /\ ~StrictlyBetter(s[j], s[i])

(* After a standings update, two players level on points stand in the      *)
(* order of their different opponent match-win percentages.                *)
C24_Witness ==
  /\ Succeeded("UpdatePlayerStandings")
  /\ \A none \in NoOpponentValues :
       \E s \in GetStandings(T, none) :
         \E k \in 2 .. Len(s) :
           /\ s[k].Points = s[k - 1].Points
           /\ ~FracEq(s[k].Tiebreakers.OpponentMatchWinPct, s[k - 1].Tiebreakers.OpponentMatchWinPct)

----------------------------------------------------------------------------
(* C25: in every standings list the first entry has rank 1, two entries    *)
(* have the same rank exactly when their points and three tiebreakers are  *)
(* the same, each entry has the rank of the entry before it or one more,   *)
(* and the ranks in use are exactly 1 up to the highest rank.              *)
C25_RanksAreDense ==
  \A none \in NoOpponentValues :
    \A s \in GetStandings(T, none) :
      /\ Len(s) > 0 => s[1].Rank = 1
      /\ \A i, j \in 1 .. Len(s) : SameTuple(s[i], s[j]) <=> s[i].Rank = s[j].Rank
      /\ \A k \in 2 .. Len(s) : s[k].Rank \in {s[k - 1].Rank, s[k - 1].Rank + 1}
      /\ { s[k].Rank : k \in 1 .. Len(s) } = 1 .. Cardinality({ s[k].Rank : k \in 1 .. Len(s) })

(* Two players share rank 1 and the third, behind them, has rank 2.        *)
C25_Witness ==
  /\ Succeeded("UpdatePlayerStandings")
  /\ \E none \in NoOpponentValues :
    \E s \in GetStandings(T, none) :
      /\ Len(s) = 3
      /\ s[1].Rank = 1
      /\ s[2].Rank = 1
      /\ s[3].Rank = 2

----------------------------------------------------------------------------
(* C26: loading the snapshot of the tournament succeeds and gives the      *)
(* tournament back: the same config, lastId, currentRound, started and     *)
(* finished, the same players under the same ids with the same name,       *)
(* statistics, notes and removal flag and round, and the same rounds in    *)
(* the same order with the same pairings and result fields.                *)
C26_LoadOfDumpIsTheTournament ==
  LET r == LoadTournament(DumpTournament(T))
  IN /\ r.err = Nil
     /\ r.t.config = config
     /\ r.t.lastId = lastId
     /\ r.t.currentRound = currentRound
     /\ r.t.started = started
     /\ r.t.finished = finished
     /\ DOMAIN r.t.players = DOMAIN players
     /\ \A id \in DOMAIN players : r.t.players[id] = players[id]
     /\ DOMAIN r.t.rounds = DOMAIN rounds
     /\ \A i \in DOMAIN rounds :
          /\ Len(r.t.rounds[i]) = Len(rounds[i])
          /\ \A k \in 1 .. Len(rounds[i]) : r.t.rounds[i][k] = rounds[i][k]

(* A started tournament in round 2, with a removed player, a finished      *)
(* round 1 and a match of round 2 without result, has just been reloaded.  *)
C26_Witness ==
  /\ Succeeded("LoadTournament")
  /\ started
  /\ currentRound = 2
  /\ \E id \in DOMAIN players : players[id].removed
  /\ \E id \in DOMAIN players : players[id].gameLosses > 0
  /\ Len(rounds[1]) > 0
  /\ \E k \in 1 .. Len(CurrentPairings) : ~IsBye(CurrentPairings[k]) /\ AllUnset(CurrentPairings[k])

----------------------------------------------------------------------------
(* C27: the current round of a new tournament has no pairings, and neither *)
(* has the current round after a successful NextRound.  While the current  *)
(* round has no pairings, AddResult for any id and UpdatePlayerStandings   *)
(* return the no-pairings error and change nothing, the round gets         *)
(* pairings only by a Pair that succeeds, and Pair(false) succeeds and     *)
(* pairs the round when there is a player.                                 *)
C27_RoundIsUnpairedUntilPairSucceeds ==
  /\ Len(CurrentPairings) = 0
  /\ [][ /\ (op'.name = "NextRound" /\ err' = Nil) => Len(CurrentPairings)' = 0
         /\ (Len(CurrentPairings) = 0 /\ op'.name \in {"AddResult", "UpdatePlayerStandings"}) =>
              /\ err' = ErrNoPairings
              /\ UNCHANGED <<lastId, players, currentRound, rounds>>
         /\ (Len(CurrentPairings) = 0 /\ Len(CurrentPairings)' > 0) =>
              /\ op'.name = "Pair"
              /\ err' = Nil
         /\ (Len(CurrentPairings) = 0 /\ op'.name = "Pair" /\ ~op'.allowRepair /\ DOMAIN players # {}) =>
              /\ err' = Nil
              /\ Len(CurrentPairings)' > 0 ]_vars

(* AddResult has just been refused on round 2, which NextRound opened and  *)
(* no Pair has paired yet.                                                 *)
C27_Witness ==
  /\ op.name = "AddResult"
  /\ err = ErrNoPairings
  /\ currentRound = 2
  /\ Len(rounds[1]) > 0

----------------------------------------------------------------------------
(* Each of the three result fields has a value                             *)
AllSet(pairing) ==
  /\ pairing.playeraWins # UNINITIALIZED_RESULT
  /\ pairing.playerbWins # UNINITIALIZED_RESULT
  /\ pairing.draws # UNINITIALIZED_RESULT

(* C28: every round before the current one has pairings, and each of its   *)
(* pairings has its three result fields set; the round number grows only   *)
(* by a NextRound whose standings update succeeded, one round at a time.   *)
C28_FinishedRoundsAreComplete ==
  /\ [](\A r \in 1 .. (currentRound - 1) :
          /\ Len(rounds[r]) > 0
          /\ \A k \in 1 .. Len(rounds[r]) : AllSet(rounds[r][k]))
  /\ [][ currentRound' # currentRound =>
           /\ op'.name = "NextRound"
           /\ err' = Nil
           /\ currentRound' = currentRound + 1
           /\ UpdatePlayerStandings(T).err = Nil
           /\ players' = UpdatePlayerStandings(T).t.players ]_vars

(* Round 2 has been reached and paired over three players after a round 1  *)
(* with a match and a bye.                                                 *)
C28_Witness ==
  /\ Succeeded("Pair")
  /\ currentRound = 2
  /\ Len(rounds[1]) = 2
  /\ Len(rounds[2]) = 2

----------------------------------------------------------------------------
(* C29: in every reachable state every pairing of every round that is not  *)
(* a bye has its three result fields all unset or all set.                 *)
C29_ResultFieldsAllUnsetOrAllSet ==
  \A i \in DOMAIN rounds :
    \A k \in 1 .. Len(rounds[i]) :
      ~IsBye(rounds[i][k]) => AllUnset(rounds[i][k]) \/ AllSet(rounds[i][k])

----------------------------------------------------------------------------
(* id and other stand in one pairing of a round before the current one     *)
MetBefore(id, other) ==
  \E r \in 1 .. (currentRound - 1) :
    \E k \in 1 .. Len(rounds[r]) :
      \/ rounds[r][k].playera = id /\ rounds[r][k].playerb = other
      \/ rounds[r][k].playera = other /\ rounds[r][k].playerb = id

(* C30: after a successful Pair of a round above 1, for every match whose  *)
(* two players differ in points, every player with the points of the       *)
(* match's first player who was still unpaired when that player was        *)
(* processed (who stands in none of the pairings before it) has met that   *)
(* player in an earlier round.                                             *)
C30_SwissPairingPrefersTheScoreGroup ==
  (Succeeded("Pair") /\ currentRound > 1) =>
    \A k \in 1 .. Len(CurrentPairings) :
      LET p == CurrentPairings[k].playera
          q == CurrentPairings[k].playerb
          unpaired == (DOMAIN players \ PairedPlayers(SubSeq(CurrentPairings, 1, k - 1))) \ {p}
      IN (~IsBye(CurrentPairings[k]) /\ players[q].points # players[p].points) =>
           \A u \in unpaired : players[u].points = players[p].points => MetBefore(p, u)

(* Round 2 has been paired with a match of two players who differ in       *)
(* points, while a third player, still unpaired then, has the first        *)
(* player's points and met that player in round 1.                         *)
C30_Witness ==
  /\ Succeeded("Pair")
  /\ currentRound = 2
  /\ \E k \in 1 .. Len(CurrentPairings) :
       LET p == CurrentPairings[k].playera
           q == CurrentPairings[k].playerb
       IN /\ ~IsBye(CurrentPairings[k])
          /\ players[p].points # players[q].points
          /\ \E u \in (DOMAIN players \ PairedPlayers(SubSeq(CurrentPairings, 1, k))) :
               players[u].points = players[p].points /\ MetBefore(p, u)

----------------------------------------------------------------------------
(* C31: after a successful Pair of a round above 1, with either flag, a    *)
(* match of two players who stand together in a pairing of an earlier      *)
(* round is made only when every other player still unpaired when the      *)
(* match's first player was processed had met that player in an earlier    *)
(* round too.  Only the rounds below the current one count, so neither a   *)
(* bye nor a pairing a re-pair threw away is a meeting.                    *)
C31_RematchIsTheLastResort ==
  (Succeeded("Pair") /\ currentRound > 1) =>
    \A k \in 1 .. Len(CurrentPairings) :
      LET p == CurrentPairings[k].playera
          q == CurrentPairings[k].playerb
          unpaired == (DOMAIN players \ PairedPlayers(SubSeq(CurrentPairings, 1, k - 1))) \ {p}
      IN (~IsBye(CurrentPairings[k]) /\ MetBefore(p, q)) =>
           \A u \in unpaired : MetBefore(p, u)

(* A re-pair of round 3 has made a rematch while a third player, who had   *)
(* met the first player of the match as well, was still unpaired.          *)
C31_Witness ==
  /\ Succeeded("Pair")
  /\ op.allowRepair
  /\ currentRound = 3
  /\ \E k \in 1 .. Len(CurrentPairings) :
       LET p == CurrentPairings[k].playera
           q == CurrentPairings[k].playerb
       IN /\ ~IsBye(CurrentPairings[k])
          /\ MetBefore(p, q)
          /\ \E u \in (DOMAIN players \ PairedPlayers(SubSeq(CurrentPairings, 1, k))) : MetBefore(p, u)

----------------------------------------------------------------------------
(* The rounds 1..currentRound in which id stands in a pairing               *)
RoundsPlayed(id) ==
  { r \in 1 .. currentRound : r \in DOMAIN rounds /\ Places(rounds[r], id) # {} }

(* C32: in every reachable state the wins, losses and draws of a player    *)
(* add up to at most the number of rounds 1..currentRound in which the     *)
(* player stands in a pairing.                                             *)
C32_EachRoundIsCountedAtMostOnce ==
  \A id \in DOMAIN players : Matches(players[id]) <= Cardinality(RoundsPlayed(id))

----------------------------------------------------------------------------
(* C33: in every reachable state the points of every player are the win    *)
(* points times the wins plus the draw points times the draws plus the     *)
(* loss points times the losses.                                           *)
C33_PointsFollowTheMatchCounters ==
  \A id \in DOMAIN players :
    players[id].points = POINTS_FOR_WIN * players[id].wins
                           + POINTS_FOR_DRAW * players[id].draws
                           + POINTS_FOR_LOSS * players[id].losses

(* A standings update has left a player with a win and a draw, and another *)
(* with a loss.                                                            *)
C33_Witness ==
  /\ Succeeded("UpdatePlayerStandings")
  /\ \E id \in DOMAIN players : players[id].wins = 1 /\ players[id].draws = 1
  /\ \E id \in DOMAIN players : players[id].losses = 1

----------------------------------------------------------------------------
(* C34: in every reachable state the round number is at least 1 and below  *)
(* the number of stored rounds, round 0 holds no pairing, and the call     *)
(* just made did not return a round-not-initialized error.                 *)
C34_CurrentRoundIsStored ==
  /\ 1 <= currentRound
  /\ currentRound < SliceLen(rounds)
  /\ DOMAIN rounds = 0 .. (SliceLen(rounds) - 1)
  /\ Len(rounds[0]) = 0
  /\ err \notin {ErrNotInitialized, ErrAddResultNotInitialized}

(* NextRound has opened round 2 and stored a third round for it.           *)
C34_Witness ==
  /\ Succeeded("NextRound")
  /\ currentRound = 2
  /\ SliceLen(rounds) = 3
  /\ Len(rounds[1]) > 0

----------------------------------------------------------------------------
(* C35: in every reachable state every bye pairing of every round carries  *)
(* the bye results: BYE_WINS for its player, BYE_LOSSES and BYE_DRAWS.     *)
C35_ByesCarryTheByeResults ==
  \A i \in DOMAIN rounds :
    \A k \in 1 .. Len(rounds[i]) :
      IsBye(rounds[i][k]) =>
        /\ rounds[i][k].playeraWins = BYE_WINS
        /\ rounds[i][k].playerbWins = BYE_LOSSES
        /\ rounds[i][k].draws = BYE_DRAWS

----------------------------------------------------------------------------
(* C36: no step changes a round below the current one: every round with an *)
(* index less than currentRound is stored after the step with the same     *)
(* pairings and the same result fields.                                    *)
C36_PastRoundsAreImmutable ==
  [][\A r \in DOMAIN rounds :
       r < currentRound => r \in DOMAIN rounds' /\ rounds'[r] = rounds[r]]_vars

(* A call of each kind was made in round 2 while round 1 holds pairings.   *)
C36_Witness ==
  /\ currentRound = 2
  /\ Len(rounds[1]) > 0
  /\ Len(rounds[2]) > 0
  /\ Succeeded("AddResult")

----------------------------------------------------------------------------
(* C37: a successful AddResult(id, ...) finds exactly one pairing of the   *)
(* current round that contains id and changes nothing but its three result *)
(* fields, which afterwards hold the arguments whatever they held before:  *)
(* that pairing's playera and playerb, every other pairing of every round, *)
(* every player record, lastId and currentRound stay as they were.         *)
C37_AddResultWritesOnePairing ==
  [][(op'.name = "AddResult" /\ err' = Nil) =>
       LET round == rounds[currentRound]
           after == rounds'[currentRound]
           hits == { i \in 1 .. Len(round) :
                       round[i].playera = op'.id \/ round[i].playerb = op'.id }
       IN /\ lastId' = lastId
          /\ players' = players
          /\ currentRound' = currentRound
          /\ DOMAIN rounds' = DOMAIN rounds
          /\ \A r \in DOMAIN rounds : r # currentRound => rounds'[r] = rounds[r]
          /\ Len(after) = Len(round)
          /\ Cardinality(hits) = 1
          /\ \A i \in 1 .. Len(round) :
               IF i \in hits
               THEN /\ after[i].playera = round[i].playera
                    /\ after[i].playerb = round[i].playerb
                    /\ after[i].draws = op'.draws
                    /\ IF round[i].playera = op'.id
                       THEN after[i].playeraWins = op'.wins /\ after[i].playerbWins = op'.losses
                       ELSE after[i].playerbWins = op'.wins /\ after[i].playeraWins = op'.losses
               ELSE after[i] = round[i]]_vars

(* AddResult succeeded for player B of a match in the second round, next   *)
(* to a bye, with a result other than the first one given in this model;   *)
(* round 1 and the players hold what the first round left.                 *)
C37_Witness ==
  /\ Succeeded("AddResult")
  /\ currentRound = 2
  /\ Len(rounds[1]) = 2
  /\ Len(CurrentPairings) = 2
  /\ \E id \in DOMAIN players : Matches(players[id]) > 0
  /\ \E i \in 1 .. 2 :
       /\ ~IsBye(CurrentPairings[i])
       /\ CurrentPairings[i].playerb = op.id
       /\ op.wins = 1 /\ op.losses = 1 /\ op.draws = 1
       /\ CurrentPairings[i].playeraWins = 1
       /\ IsBye(CurrentPairings[3 - i])

====
